---------------------------- MODULE Spec2Model ----------------------------
(***************************************************************************)
(* Model of the youtube-to-linkedin job queue: the stateless request       *)
(* handlers of src/api/index.py running concurrently over the shared       *)
(* key/value store of src/app/queue_manager.py, and the generation         *)
(* pipeline skeleton of src/app/services.py.                                *)
(*                                                                         *)
(* Every handler is a process that performs one store operation (or one    *)
(* external call) per step, in the order of the source, so that two        *)
(* requests interleave exactly where the code lets them.                   *)
(*                                                                         *)
(* Weights are floats in the source; here they are integers in tenths      *)
(* (1.0 = 10, 0.5 = 5, 5.0 = 50).                                          *)
(***************************************************************************)
EXTENDS Integers, Sequences, FiniteSets, TLC

(***************************************************************************)
(* Bounds of the model.                                                    *)
(***************************************************************************)
\* concurrent request handlers
NumReq == 2
\* pipeline runs that may complete (each draws a fresh post_id)
MaxPosts == 6
\* the same, under SpecLock
LockPosts == 2
\* the same, under Spec
MainPosts == 2
\* the same, under SpecApprove
StagePosts == 3
\* the same, under SpecLedger
LedgerPosts == 2
\* mark_winner calls that may succeed
MaxMarks == 2
\* add_url calls that may append
MaxEnq == 2
\* the same, under SpecSweep
SweepEnq == 6
\* the same, under SpecApprove
StageEnq == 3
\* the same, under SpecQueue
QueueEnq == 3
\* pipeline runs that may complete under SpecQueue
QueuePosts == 3
\* add_url calls that may append under SpecLimiter
LimiterEnq == 6
\* pipeline runs that may complete under SpecLimiter
LimiterPosts == 6
\* add_url calls that may append under SpecPipeline
PipelineEnq == 2
\* drafts that may complete under SpecPipeline
PipelinePosts == 2
\* log_experiment calls under SpecStats
StatsLogs == 3
\* log_experiment calls under SpecRetention
RetentionLogs == 102
\* add_url calls that may append under SpecHistory
HistoryEnq == 22
\* pipeline runs that may complete under SpecHistory
HistoryPosts == 22

(***************************************************************************)
(* Program constants.                                                      *)
(***************************************************************************)
MAX_POSTS_PER_DAY == 5
HISTORY_KEEP == 20
WEIGHT_DEFAULT == 10
WEIGHT_STEP == 5
WEIGHT_CAP == 50

Reqs == 1..NumReq
\* 'drew' is the reserved client of the bot; 'default' is the client of the
\* HTTP endpoints (the default argument of SimpleQueue's methods).
Clients == {"drew", "default"}
Urls == {"u1", "u2"}
PostIds == 1..MaxPosts

Min(a, b) == IF a < b THEN a ELSE b

\* hashlib.md5(url.encode()).hexdigest()[:10]: a fixed token per URL
url_hash(u) == CASE u = "u1" -> "7a1c" [] u = "u2" -> "e09b" [] OTHER -> "0000"
UrlHashes == {url_hash(u) : u \in Urls}

(***************************************************************************)
(* The variation axes, options in declaration order.                       *)
(***************************************************************************)
HOOK_VARIATIONS ==
    <<"bold_claim", "personal_test", "numbers_first", "question_hook", "pattern_interrupt">>
STRUCTURE_VARIATIONS ==
    <<"bullets_bold", "numbered_steps", "short_paragraphs", "problem_solution">>
CLOSER_VARIATIONS ==
    <<"impressive_part", "mindset_shift", "bottom_line", "real_talk">>
CTA_VARIATIONS ==
    <<"which_first", "what_would", "drop_comment", "save_this", "hot_take">>

VARIABLES
    \* ---- the shared store ----
    queue,        \* youtube_queue_v2:{client}: the client's list of URLs
    history,      \* youtube_done_v2:{client}: the client's done list, newest first
    lock,         \* processing_lock:{client}: TRUE while the key exists
    preview,      \* preview:{client}:{url_hash}: the staged bundle, or NoBundle
    dailyCount,   \* daily_posts:{today}
    registry,     \* linkedin_clients: name -> settings, in insertion order
    experiments,  \* post_experiments: post_id -> experiment
    weights,      \* variation_weights: key -> weight
    winners,      \* post_winners: the post_ids marked winners, newest first
    \* ---- the environment ----
    weekday,      \* today is Mon-Fri in America/Chicago
    postClock,    \* number of post_ids drawn so far
    \* ---- the request handlers ----
    pc,           \* each handler's position
    rclient,      \* the client the request is about
    rurls,        \* the handler's local copy of a queue (get_urls result)
    rurl,         \* the URL the handler dequeued or loaded
    rres,         \* the handler's result bundle
    rrun,         \* the locals of the handler's run_all call, and the calls it has made
    rscan,        \* the client names a sweep has still to look at
    rhash,        \* the url_hash a callback carries
    rpost,        \* the post_id a callback carries
    reply,        \* the outcome the last request of the handler reported
    \* ---- history variables (not program state) ----
    lockSetters,  \* the requests whose setex wrote the lock key since it was last absent
    enqueued,     \* per client and URL: add_url calls that appended the URL
    handed,       \* per client and URL: times handed to the pipeline
    published,    \* per client and URL: successful publish calls
    fate,         \* per preview key: what last happened to its stage
    notFoundAt,   \* the fates at which an approve found no stage
    doneCount     \* per client: mark_done calls so far; the next call's done_at

storeVars == <<queue, history, lock, preview, dailyCount, registry, experiments, weights,
              winners>>
envVars == <<weekday, postClock>>
reqVars == <<pc, rclient, rurls, rurl, rres, rrun, rscan, rhash, rpost, reply>>
histVars == <<lockSetters, enqueued, handed, published, fate, notFoundAt, doneCount>>
vars == <<storeVars, envVars, reqVars, histVars>>

NoUrl == ""
NoVariation == <<>>
NoBundle == [url |-> NoUrl, image_url |-> "", post_id |-> 0, variation |-> NoVariation,
             posted |-> FALSE]
EmptyMap == [k \in {} |-> 0]
\* no run_all call in progress
NoRun == [skip_post |-> FALSE, raw_img |-> "", final_img |-> "", calls |-> <<>>,
          weights |-> EmptyMap, draws |-> <<>>]


(***************************************************************************)
(* SimpleQueue: pure parts.                                                *)
(***************************************************************************)
\* str.strip() on the URLs the model draws: a padded URL loses its padding
strip(u) == CASE u = "u1 " -> "u1" [] u = " " -> "" [] OTHER -> u

RECURSIVE StripAll(_)
\* [u.strip() for u in urls if u.strip()]
StripAll(urls) ==
    IF urls = <<>> THEN <<>>
    ELSE IF strip(Head(urls)) = "" THEN StripAll(Tail(urls))
    ELSE <<strip(Head(urls))>> \o StripAll(Tail(urls))

\* set_urls: the text "\n".join(u.strip() for u in urls if u.strip()) that is
\* stored, kept as the list of its lines
set_urls(urls) == StripAll(urls)

\* get_urls: the stored text split on newlines, entries stripped, blank
\* entries dropped
get_urls(c) == StripAll(queue[c])

\* (mutant) the LTRIM is left out
mark_done_untrimmed(h, url, now) ==
    <<[url |-> url, done_at |-> now]>> \o h

\* mark_done: LPUSH the record {"url", "done_at"}, then LTRIM 0 19.  done_at
\* is datetime.utcnow(), here the ordinal of the call among the client's calls.
mark_done(h, url, now) ==
    LET pushed == <<[url |-> url, done_at |-> now]>> \o h
    IN  SubSeq(pushed, 1, Min(Len(pushed), HISTORY_KEEP))

(***************************************************************************)
(* DailyPostTracker.                                                       *)
(***************************************************************************)
is_weekday == weekday
get_daily_count == dailyCount
\* (mutant) the weekday test is left out
can_post_today_any_day == get_daily_count < MAX_POSTS_PER_DAY
can_post_today == IF ~is_weekday THEN FALSE ELSE get_daily_count < MAX_POSTS_PER_DAY

(***************************************************************************)
(* ClientManager: the registry is a sequence of [name, preview_mode]       *)
(* records (a JSON object keeps its insertion order).                      *)
(***************************************************************************)
RegistryNames == [i \in 1..Len(registry) |-> registry[i].name]
IsRegistered(n) == \E i \in 1..Len(registry) : registry[i].name = n
\* client_info.get('preview_mode', False) of get_client(name) or {}
preview_mode_of(n) ==
    \E i \in 1..Len(registry) : registry[i].name = n /\ registry[i].preview_mode
\* ['drew'] + list(clients.get_all().keys())
all_client_names == <<"drew">> \o RegistryNames

(***************************************************************************)
(* ContentPipeline._select_variation.  A draw of random.random() is the    *)
(* grid point d / DrawGrid, d in 0..DrawGrid-1.                            *)
(***************************************************************************)
DrawGrid == 2
Draws == 0..(DrawGrid - 1)

\* weights.get(key, 1.0)
WeightGet(w, key) == IF key \in DOMAIN w THEN w[key] ELSE WEIGHT_DEFAULT

RECURSIVE CumWeight(_, _, _, _)
\* cumulative weight of the first n options of an axis
CumWeight(options, category, w, n) ==
    IF n = 0 THEN 0
    ELSE CumWeight(options, category, w, n - 1) + WeightGet(w, <<category, options[n]>>)

\* (mutant) the snapshot is not looked at: every option weighs 1.0
weighted_choice_unweighted(options, category, w, d) ==
    LET hits == {i \in 1..Len(options) : d * Len(options) <= i * DrawGrid}
    IN  IF hits = {} THEN options[Len(options)]
        ELSE options[CHOOSE i \in hits : \A j \in hits : i <= j]

\* r = random.random() * total; the first option with r <= cumulative,
\* items[-1] when none
weighted_choice(options, category, w, d) ==
    LET total == CumWeight(options, category, w, Len(options))
        hits == {i \in 1..Len(options) :
                    d * total <= CumWeight(options, category, w, i) * DrawGrid}
    IN  IF hits = {} THEN options[Len(options)]
        ELSE options[CHOOSE i \in hits : \A j \in hits : i <= j]

\* variation_id = f"{hook_name}|{struct_name}|{closer_name}|{cta_name}",
\* kept as the tuple of its four names; ds are the four draws
select_variation(w, ds) ==
    << weighted_choice(HOOK_VARIATIONS, "hook", w, ds[1]),
       weighted_choice(STRUCTURE_VARIATIONS, "structure", w, ds[2]),
       weighted_choice(CLOSER_VARIATIONS, "closer", w, ds[3]),
       weighted_choice(CTA_VARIATIONS, "cta", w, ds[4]) >>

\* run_all calls generate_post_claude(content) without weights, and
\* _select_variation turns the missing argument into {}
draft_weights(stored) == EmptyMap

(***************************************************************************)
(* ContentPipeline.run_all.  o tells which collaborator calls succeed.     *)
(***************************************************************************)
AllOk == [content |-> TRUE, summary |-> TRUE, brief |-> TRUE, image |-> TRUE,
          upload |-> TRUE, draft |-> TRUE, publish |-> TRUE]
StepOutcomes == [content : BOOLEAN, summary : BOOLEAN, brief : BOOLEAN, image : BOOLEAN,
                 upload : BOOLEAN, draft : BOOLEAN, publish : BOOLEAN]

\* generate_image_kie then upload_cloudinary inside the try: "" when the
\* generator fails, the generator's raw URL when the upload fails
final_img(o) == IF ~o.image THEN "" ELSE IF o.upload THEN "cdn" ELSE "raw"

\* the run raises before a bundle exists
run_all_hard_failure(o) == ~o.content \/ ~o.summary \/ ~o.brief \/ ~o.draft

\* post_blotato is called
run_all_publishes(skip_post, o) ==
    ~run_all_hard_failure(o) /\ ~skip_post /\ final_img(o) # ""

\* the run raises
run_all_raises(skip_post, o) ==
    run_all_hard_failure(o) \/ (run_all_publishes(skip_post, o) /\ ~o.publish)

\* the result dict of a run that returns
run_all(url, skip_post, o, ds, pid) ==
    [url |-> url, image_url |-> final_img(o), post_id |-> pid,
     variation |-> select_variation(draft_weights(weights), ds),
     posted |-> run_all_publishes(skip_post, o)]

(***************************************************************************)
(* ExperimentTracker.                                                      *)
(***************************************************************************)
EXPERIMENTS_KEEP == 100

MapPut(m, k, v) == [x \in DOMAIN m \cup {k} |-> IF x = k THEN v ELSE m[x]]
MapDrop(m, ks) == [x \in DOMAIN m \ ks |-> m[x]]

\* HSET the experiment, then HDEL sorted(all_keys)[:len(all_keys) - 100]
log_experiment(exps, pid, variation, url) ==
    LET put == MapPut(exps, pid, [variation |-> variation, url |-> url, is_winner |-> FALSE])
        n == Cardinality(DOMAIN put)
        oldest == {k \in DOMAIN put :
                      Cardinality({j \in DOMAIN put : j < k}) < n - EXPERIMENTS_KEEP}
    IN  IF n > EXPERIMENTS_KEEP THEN MapDrop(put, oldest) ELSE put

\* _update_weights: current = weights.get(winning_variation, 1.0);
\* weights[winning_variation] = min(current + 0.5, 5.0)
update_weights(w, winning_variation) ==
    MapPut(w, winning_variation,
           Min(WeightGet(w, winning_variation) + WEIGHT_STEP, WEIGHT_CAP))


(***************************************************************************)
(* Initial state: an empty store, idle handlers.                           *)
(***************************************************************************)
PreviewKeys == Clients \X UrlHashes

InitOn(days) ==
    /\ queue = [c \in Clients |-> <<>>]
    /\ history = [c \in Clients |-> <<>>]
    /\ lock = [c \in Clients |-> FALSE]
    /\ preview = [k \in PreviewKeys |-> NoBundle]
    /\ dailyCount = 0
    /\ registry = <<>>
    /\ experiments = EmptyMap
    /\ weights = EmptyMap
    /\ winners = <<>>
    /\ weekday \in days
    /\ postClock = 0
    /\ pc = [r \in Reqs |-> "idle"]
    /\ rclient = [r \in Reqs |-> "drew"]
    /\ rurls = [r \in Reqs |-> <<>>]
    /\ rurl = [r \in Reqs |-> NoUrl]
    /\ rres = [r \in Reqs |-> NoBundle]
    /\ rrun = [r \in Reqs |-> NoRun]
    /\ rscan = [r \in Reqs |-> <<>>]
    /\ rhash = [r \in Reqs |-> ""]
    /\ rpost = [r \in Reqs |-> 0]
    /\ reply = [r \in Reqs |-> "none"]
    /\ lockSetters = [c \in Clients |-> {}]
    /\ enqueued = [k \in Clients \X Urls |-> 0]
    /\ handed = [k \in Clients \X Urls |-> 0]
    /\ published = [k \in Clients \X Urls |-> 0]
    /\ fate = [k \in PreviewKeys |-> "never"]
    /\ notFoundAt = {}
    /\ doneCount = [c \in Clients |-> 0]

\* the service may be deployed on any day of the week
Init == InitOn(BOOLEAN)
\* ... or, for the handlers that never look at the calendar, on a weekday
InitWeekday == InitOn({TRUE})

(***************************************************************************)
(* Steps shared by the handlers.                                           *)
(***************************************************************************)
\* the handler returns its response and forgets its locals
Return(r, outcome) ==
    /\ pc' = [pc EXCEPT ![r] = "idle"]
    /\ rclient' = [rclient EXCEPT ![r] = "drew"]
    /\ rurls' = [rurls EXCEPT ![r] = <<>>]
    /\ rurl' = [rurl EXCEPT ![r] = NoUrl]
    /\ rres' = [rres EXCEPT ![r] = NoBundle]
    /\ rrun' = [rrun EXCEPT ![r] = NoRun]
    /\ rscan' = [rscan EXCEPT ![r] = <<>>]
    /\ rhash' = [rhash EXCEPT ![r] = ""]
    /\ rpost' = [rpost EXCEPT ![r] = 0]
    /\ reply' = [reply EXCEPT ![r] = outcome]

\* the handler moves on to its next step
Goto(r, where) == pc' = [pc EXCEPT ![r] = where]

\* redis.delete(lock_key)
delete_lock(c) ==
    /\ lock' = [lock EXCEPT ![c] = FALSE]
    /\ lockSetters' = [lockSetters EXCEPT ![c] = {}]

\* pop_next, first half: urls = self.get_urls(client_id)
pop_next_get(r, c, found, empty) ==
    IF get_urls(c) = <<>>
    THEN /\ Goto(r, empty)
         /\ UNCHANGED rurls
    ELSE /\ Goto(r, found)
         /\ rurls' = [rurls EXCEPT ![r] = get_urls(c)]

\* (mutant) the last URL is taken instead of the first
pop_next_set_takes_last(r) ==
    /\ queue' = [queue EXCEPT ![rclient[r]] =
                     set_urls(SubSeq(rurls[r], 1, Len(rurls[r]) - 1))]
    /\ rurl' = [rurl EXCEPT ![r] = rurls[r][Len(rurls[r])]]
    /\ rurls' = [rurls EXCEPT ![r] = <<>>]
    /\ handed' = [handed EXCEPT ![<<rclient[r], rurls[r][Len(rurls[r])]>>] = @ + 1]

\* pop_next, second half: next_url = urls.pop(0); self.set_urls(urls, client_id)
pop_next_set(r) ==
    /\ queue' = [queue EXCEPT ![rclient[r]] = set_urls(Tail(rurls[r]))]
    /\ rurl' = [rurl EXCEPT ![r] = Head(rurls[r])]
    /\ rurls' = [rurls EXCEPT ![r] = <<>>]
    /\ handed' = [handed EXCEPT ![<<rclient[r], Head(rurls[r])>>] = @ + 1]

(***************************************************************************)
(* A URL message to the bot, POST /api/add: SimpleQueue.add_url.           *)
(***************************************************************************)
TotalEnqueued == LET S == Clients \X Urls
                     RECURSIVE Sum(_)
                     Sum(T) == IF T = {} THEN 0
                               ELSE LET k == CHOOSE x \in T : TRUE
                                    IN  enqueued[k] + Sum(T \ {k})
                 IN  Sum(S)

\* urls = self.get_urls(client_id); if url not in urls: urls.append(url)
add_url_get(r, c, u, maxEnq) ==
    /\ pc[r] = "idle"
    /\ TotalEnqueued < maxEnq
    /\ IF u \in {get_urls(c)[i] : i \in 1..Len(get_urls(c))}
       THEN /\ Return(r, "added")
            /\ UNCHANGED <<storeVars, envVars, histVars>>
       ELSE /\ Goto(r, "add_set")
            /\ rclient' = [rclient EXCEPT ![r] = c]
            /\ rurl' = [rurl EXCEPT ![r] = u]
            /\ rurls' = [rurls EXCEPT ![r] = Append(get_urls(c), u)]
            /\ reply' = [reply EXCEPT ![r] = "none"]
            /\ UNCHANGED <<storeVars, envVars, histVars, rres, rrun, rscan, rhash, rpost>>

\* self.set_urls(urls, client_id)
add_url_set(r) ==
    /\ pc[r] = "add_set"
    /\ queue' = [queue EXCEPT ![rclient[r]] = set_urls(rurls[r])]
    /\ enqueued' = [enqueued EXCEPT ![<<rclient[r], strip(rurl[r])>>] = @ + 1]
    /\ Return(r, "added")
    /\ UNCHANGED <<history, lock, preview, dailyCount, registry, experiments, weights, winners,
                   envVars, lockSetters, handed, published, fate, notFoundAt, doneCount>>

(***************************************************************************)
(* POST /api/queue (handle_queue): replace the 'default' queue by the list *)
(* of the request.                                                         *)
(***************************************************************************)
\* urls = request.json.get('urls', []); q.set_urls(urls)
queue_post(r, urls) ==
    /\ pc[r] = "idle"
    /\ queue' = [queue EXCEPT !["default"] = set_urls(urls)]
    /\ Return(r, "saved")
    /\ UNCHANGED <<history, lock, preview, dailyCount, registry, experiments, weights, winners,
                   envVars, histVars>>

(***************************************************************************)
(* The bot's /remove <number> and /clear on the active client c.           *)
(***************************************************************************)
\* urls without its element at index num (1-based)
WithoutIndex(urls, num) ==
    [i \in 1..(Len(urls) - 1) |-> IF i < num THEN urls[i] ELSE urls[i + 1]]

\* urls = q.get_urls(current); if num < 1 or num > len(urls): "Invalid number";
\* else removed = urls.pop(num - 1)
remove_get(r, c, num) ==
    /\ pc[r] = "idle"
    /\ IF num < 1 \/ num > Len(get_urls(c))
       THEN Return(r, "remove_invalid")
       ELSE /\ Goto(r, "rm_set")
            /\ rclient' = [rclient EXCEPT ![r] = c]
            /\ rurl' = [rurl EXCEPT ![r] = get_urls(c)[num]]
            /\ rurls' = [rurls EXCEPT ![r] = WithoutIndex(get_urls(c), num)]
            /\ reply' = [reply EXCEPT ![r] = "none"]
            /\ UNCHANGED <<rres, rrun, rscan, rhash, rpost>>
    /\ UNCHANGED <<storeVars, envVars, histVars>>

\* q.set_urls(urls, current)
remove_set(r) ==
    /\ pc[r] = "rm_set"
    /\ queue' = [queue EXCEPT ![rclient[r]] = set_urls(rurls[r])]
    /\ Return(r, "removed")
    /\ UNCHANGED <<history, lock, preview, dailyCount, registry, experiments, weights, winners,
                   envVars, histVars>>

\* /clear: q.set_urls([], current)
clear_queue(r, c) ==
    /\ pc[r] = "idle"
    /\ queue' = [queue EXCEPT ![c] = set_urls(<<>>)]
    /\ Return(r, "cleared")
    /\ UNCHANGED <<history, lock, preview, dailyCount, registry, experiments, weights, winners,
                   envVars, histVars>>

(***************************************************************************)
(* The bot's /go (telegram_webhook): process the next URL of the active    *)
(* client c, always as a preview.                                          *)
(***************************************************************************)
\* existing_lock = q.redis.get(lock_key); if existing_lock: "Already processing"
go_lock_get(r, c) ==
    /\ pc[r] = "idle"
    /\ IF lock[c]
       THEN /\ Return(r, "go_busy")
       ELSE /\ Goto(r, "go_setex")
            /\ rclient' = [rclient EXCEPT ![r] = c]
            /\ reply' = [reply EXCEPT ![r] = "none"]
            /\ UNCHANGED <<rurls, rurl, rres, rrun, rscan, rhash, rpost>>
    /\ UNCHANGED <<storeVars, envVars, histVars>>

\* q.redis.setex(lock_key, 300, "1")
go_lock_setex(r) ==
    /\ pc[r] = "go_setex"
    /\ lock' = [lock EXCEPT ![rclient[r]] = TRUE]
    /\ lockSetters' = [lockSetters EXCEPT ![rclient[r]] = @ \cup {r}]
    /\ Goto(r, "go_pop")
    /\ UNCHANGED <<queue, history, preview, dailyCount, registry, experiments, weights, winners,
                   envVars, rclient, rurls, rurl, rres, rrun, rscan, rhash, rpost, reply, enqueued, handed, published, fate, notFoundAt, doneCount>>

\* url = q.pop_next(current), the read
go_pop_get(r) ==
    /\ pc[r] = "go_pop"
    /\ pop_next_get(r, rclient[r], "go_pop_set", "go_empty")
    /\ UNCHANGED <<storeVars, envVars, histVars, rclient, rurl, rres, rrun, rscan, rhash, rpost, reply>>

\* url = q.pop_next(current), the write
go_pop_set(r) ==
    /\ pc[r] = "go_pop_set"
    /\ pop_next_set(r)
    /\ Goto(r, "go_run")
    /\ UNCHANGED <<history, lock, preview, dailyCount, registry, experiments, weights, winners,
                   envVars, rclient, rres, rrun, rscan, rhash, rpost, reply, lockSetters, enqueued, published, fate, notFoundAt, doneCount>>

\* if not url: q.redis.delete(lock_key); "Queue ... is empty!"
go_empty(r) ==
    /\ pc[r] = "go_empty"
    /\ delete_lock(rclient[r])
    /\ Return(r, "go_empty")
    /\ UNCHANGED <<queue, history, preview, dailyCount, registry, experiments, weights, winners,
                   envVars, enqueued, handed, published, fate, notFoundAt, doneCount>>

\* result = pipeline.run_all(skip_post=True), raising or returning the bundle
go_run(r, o, ds, maxPosts) ==
    /\ pc[r] = "go_run"
    /\ IF run_all_raises(TRUE, o)
       THEN /\ Goto(r, "go_except")
            /\ UNCHANGED <<rres, postClock>>
       ELSE /\ postClock < maxPosts
            /\ postClock' = postClock + 1
            /\ rres' = [rres EXCEPT ![r] = run_all(rurl[r], TRUE, o, ds, postClock + 1)]
            /\ Goto(r, "go_log")
    /\ UNCHANGED <<storeVars, weekday, histVars, rclient, rurls, rurl, rrun, rscan, rhash, rpost, reply>>

\* tracker.log_experiment(post_id, variation, url, post_text)
go_log(r) ==
    /\ pc[r] = "go_log"
    /\ experiments' = log_experiment(experiments, rres[r].post_id, rres[r].variation, rurl[r])
    /\ Goto(r, "go_stage")
    /\ UNCHANGED <<queue, history, lock, preview, dailyCount, registry, weights, winners,
                   envVars, histVars, rclient, rurls, rurl, rres, rrun, rscan, rhash, rpost, reply>>

\* q.redis.setex(preview_key, 3600 * 24, json.dumps(result)); the preview
\* message.  ok tells whether the setex returns or raises into the except clause.
go_stage(r, ok) ==
    /\ pc[r] = "go_stage"
    /\ IF ok
       THEN /\ preview' = [preview EXCEPT ![<<rclient[r], url_hash(rurl[r])>>] = rres[r]]
            /\ fate' = [fate EXCEPT ![<<rclient[r], url_hash(rurl[r])>>] = "staged"]
            /\ Goto(r, "go_finally")
            /\ reply' = [reply EXCEPT ![r] = "go_previewed"]
       ELSE /\ Goto(r, "go_except")
            /\ UNCHANGED <<preview, fate, reply>>
    /\ UNCHANGED <<queue, history, lock, dailyCount, registry, experiments, weights, winners,
                   envVars, lockSetters, enqueued, handed, published, notFoundAt, doneCount,
                   rclient, rurls, rurl, rres, rrun, rscan, rhash, rpost>>

\* (mutant) the exception path returns without the finally clause
go_except_no_finally(r) ==
    /\ pc[r] = "go_except"
    /\ Return(r, "go_failed")
    /\ UNCHANGED <<storeVars, envVars, histVars>>

\* except Exception as e: "Failed: ..."
go_except(r) ==
    /\ pc[r] = "go_except"
    /\ Goto(r, "go_finally")
    /\ reply' = [reply EXCEPT ![r] = "go_failed"]
    /\ UNCHANGED <<storeVars, envVars, histVars, rclient, rurls, rurl, rres, rrun, rscan, rhash, rpost>>

\* finally: q.redis.delete(lock_key)
go_finally(r) ==
    /\ pc[r] = "go_finally"
    /\ delete_lock(rclient[r])
    /\ Return(r, reply[r])
    /\ UNCHANGED <<queue, history, preview, dailyCount, registry, experiments, weights, winners,
                   envVars, enqueued, handed, published, fate, notFoundAt, doneCount>>

(***************************************************************************)
(* The store drops the lock key 300 s after its setex.                     *)
(***************************************************************************)
lock_expire(c) ==
    /\ lock[c]
    /\ delete_lock(c)
    /\ UNCHANGED <<queue, history, preview, dailyCount, registry, experiments, weights, winners,
                   envVars, reqVars, enqueued, handed, published, fate, notFoundAt, doneCount>>

(***************************************************************************)
(* /stop and /api/clear_locks: delete the lock of every listed client and  *)
(* every preview key.                                                      *)
(***************************************************************************)
clear_locks ==
    LET listed == {all_client_names[i] : i \in 1..Len(all_client_names)}
    IN  /\ lock' = [c \in Clients |-> IF c \in listed THEN FALSE ELSE lock[c]]
        /\ lockSetters' = [c \in Clients |-> IF c \in listed THEN {} ELSE lockSetters[c]]
        /\ preview' = [k \in PreviewKeys |-> NoBundle]
        /\ fate' = [k \in PreviewKeys |-> IF preview[k] # NoBundle THEN "cleared" ELSE fate[k]]
        /\ UNCHANGED <<queue, history, dailyCount, registry, experiments, weights, winners,
                       envVars, reqVars, enqueued, handed, published, notFoundAt, doneCount>>


(***************************************************************************)
(* ClientManager.add_client(name, blotato_account_id, settings).           *)
(* settings is <<>> (none given) or <<preview_mode>>.                      *)
(***************************************************************************)
add_client(n, settings) ==
    LET given == IF settings = <<>> THEN FALSE ELSE settings[1]
        at == {i \in 1..Len(registry) : registry[i].name = n}
    IN  /\ registry' =
              IF at = {}
              THEN Append(registry, [name |-> n, preview_mode |-> given])
              ELSE [i \in 1..Len(registry) |->
                       IF i \in at /\ settings # <<>>
                       THEN [name |-> n, preview_mode |-> given]
                       ELSE registry[i]]
        /\ UNCHANGED <<queue, history, lock, preview, dailyCount, experiments, weights, winners,
                       envVars, reqVars, histVars>>

(***************************************************************************)
(* /api/auto_process_all: the sweep.                                       *)
(***************************************************************************)
\* (mutant) the weekday test is left out of both checks
sweep_check_any_day(r) ==
    /\ pc[r] = "idle"
    /\ IF get_daily_count >= MAX_POSTS_PER_DAY THEN Return(r, "sweep_skipped_limit")
       ELSE /\ Goto(r, "sw_list")
            /\ reply' = [reply EXCEPT ![r] = "none"]
            /\ UNCHANGED <<rclient, rurls, rurl, rres, rrun, rscan, rhash, rpost>>
    /\ UNCHANGED <<storeVars, envVars, histVars>>

\* if not tracker.is_weekday(): skipped; if not tracker.can_post_today(): skipped
sweep_check(r) ==
    /\ pc[r] = "idle"
    /\ IF ~is_weekday THEN Return(r, "sweep_skipped_weekend")
       ELSE IF ~can_post_today THEN Return(r, "sweep_skipped_limit")
       ELSE /\ Goto(r, "sw_list")
            /\ reply' = [reply EXCEPT ![r] = "none"]
            /\ UNCHANGED <<rclient, rurls, rurl, rres, rrun, rscan, rhash, rpost>>
    /\ UNCHANGED <<storeVars, envVars, histVars>>

\* all_client_names = ['drew'] + list(clients.get_all().keys())
sweep_list(r) ==
    /\ pc[r] = "sw_list"
    /\ rscan' = [rscan EXCEPT ![r] = all_client_names]
    /\ Goto(r, "sw_scan")
    /\ UNCHANGED <<storeVars, envVars, histVars, rclient, rurls, rurl, rres, rrun, rhash, rpost, reply>>

\* for client_name in all_client_names: urls = q.get_urls(client_name); if urls: ...
sweep_scan(r) ==
    /\ pc[r] = "sw_scan"
    /\ IF get_urls(Head(rscan[r])) # <<>>
       THEN /\ rclient' = [rclient EXCEPT ![r] = Head(rscan[r])]
            /\ Goto(r, "sw_pop")
            /\ UNCHANGED <<rscan, rurls, rurl, rres, rrun, rhash, rpost, reply>>
       ELSE IF Len(rscan[r]) > 1
       THEN /\ rscan' = [rscan EXCEPT ![r] = Tail(@)]
            /\ UNCHANGED <<pc, rclient, rurls, rurl, rres, rrun, rhash, rpost, reply>>
       ELSE Return(r, "sweep_idle")
    /\ UNCHANGED <<storeVars, envVars, histVars>>

\* url = q.pop_next(client_name), the read; if not url: idle
sweep_pop_get(r) ==
    /\ pc[r] = "sw_pop"
    /\ IF get_urls(rclient[r]) = <<>>
       THEN Return(r, "sweep_idle")
       ELSE /\ pop_next_get(r, rclient[r], "sw_pop_set", "sw_pop_set")
            /\ UNCHANGED <<rclient, rurl, rres, rrun, rscan, rhash, rpost, reply>>
    /\ UNCHANGED <<storeVars, envVars, histVars>>

\* url = q.pop_next(client_name), the write
sweep_pop_set(r) ==
    /\ pc[r] = "sw_pop_set"
    /\ pop_next_set(r)
    /\ Goto(r, "sw_run")
    /\ UNCHANGED <<history, lock, preview, dailyCount, registry, experiments, weights, winners,
                   envVars, rclient, rres, rrun, rscan, rhash, rpost, reply, lockSetters, enqueued, published, fate, notFoundAt, doneCount>>

\* preview_enabled = client_info.get('preview_mode', False);
\* result = pipeline.run_all(skip_post=preview_enabled)
sweep_run(r, o, ds, maxPosts) ==
    LET preview_enabled == preview_mode_of(rclient[r])
    IN  /\ pc[r] = "sw_run"
        /\ IF run_all_raises(preview_enabled, o)
           THEN /\ Return(r, "sweep_failed")
                /\ UNCHANGED <<postClock, published>>
           ELSE /\ postClock < maxPosts
                /\ postClock' = postClock + 1
                /\ rres' = [rres EXCEPT ![r] =
                               run_all(rurl[r], preview_enabled, o, ds, postClock + 1)]
                /\ published' =
                       IF run_all_publishes(preview_enabled, o)
                       THEN [published EXCEPT ![<<rclient[r], rurl[r]>>] = @ + 1]
                       ELSE published
                /\ Goto(r, IF preview_enabled THEN "sw_stage" ELSE "sw_mark")
                /\ UNCHANGED <<rclient, rurls, rurl, rrun, rscan, rhash, rpost, reply>>
        /\ UNCHANGED <<storeVars, weekday, lockSetters, enqueued, handed, fate, notFoundAt, doneCount>>

\* q.redis.setex(preview_key, 3600 * 24, json.dumps(result))
sweep_stage(r) ==
    /\ pc[r] = "sw_stage"
    /\ preview' = [preview EXCEPT ![<<rclient[r], url_hash(rurl[r])>>] = rres[r]]
    /\ fate' = [fate EXCEPT ![<<rclient[r], url_hash(rurl[r])>>] = "staged"]
    /\ Goto(r, "sw_incr")
    /\ reply' = [reply EXCEPT ![r] = "sweep_previewed"]
    /\ UNCHANGED <<queue, history, lock, dailyCount, registry, experiments, weights, winners,
                   envVars, lockSetters, enqueued, handed, published, notFoundAt, doneCount,
                   rclient, rurls, rurl, rres, rrun, rscan, rhash, rpost>>

\* q.mark_done(url, selected_client)
sweep_mark(r) ==
    /\ pc[r] = "sw_mark"
    /\ history' = [history EXCEPT ![rclient[r]] =
                       mark_done(@, rurl[r], doneCount[rclient[r]] + 1)]
    /\ doneCount' = [doneCount EXCEPT ![rclient[r]] = @ + 1]
    /\ Goto(r, "sw_incr")
    /\ reply' = [reply EXCEPT ![r] = "sweep_posted"]
    /\ UNCHANGED <<queue, lock, preview, dailyCount, registry, experiments, weights, winners,
                   envVars, lockSetters, enqueued, handed, published, fate, notFoundAt, rclient, rurls, rurl, rres, rrun, rscan, rhash, rpost>>

\* (mutant) a read and a write instead of INCR: an increment overlapping
\* another one is lost
sweep_incr_lost_update(r) ==
    /\ pc[r] = "sw_incr"
    /\ dailyCount' = IF \E r2 \in Reqs \ {r} : pc[r2] = "sw_incr"
                     THEN dailyCount ELSE dailyCount + 1
    /\ Return(r, reply[r])
    /\ UNCHANGED <<queue, history, lock, preview, registry, experiments, weights, winners,
                   envVars, histVars>>

\* tracker.increment_daily_count(): INCR daily_posts:{today}
sweep_incr(r) ==
    /\ pc[r] = "sw_incr"
    /\ dailyCount' = dailyCount + 1
    /\ Return(r, reply[r])
    /\ UNCHANGED <<queue, history, lock, preview, registry, experiments, weights, winners,
                   envVars, histVars>>

(***************************************************************************)
(* POST /api/process_next: the next URL of the 'default' queue.            *)
(***************************************************************************)
\* url = q.pop_next(), the read; if not url: empty
process_next_get(r) ==
    /\ pc[r] = "idle"
    /\ IF get_urls("default") = <<>>
       THEN Return(r, "pn_empty")
       ELSE /\ pop_next_get(r, "default", "pn_pop_set", "pn_pop_set")
            /\ rclient' = [rclient EXCEPT ![r] = "default"]
            /\ reply' = [reply EXCEPT ![r] = "none"]
            /\ UNCHANGED <<rurl, rres, rrun, rscan, rhash, rpost>>
    /\ UNCHANGED <<storeVars, envVars, histVars>>

\* url = q.pop_next(), the write
process_next_set(r) ==
    /\ pc[r] = "pn_pop_set"
    /\ pop_next_set(r)
    /\ Goto(r, "pn_run")
    /\ UNCHANGED <<history, lock, preview, dailyCount, registry, experiments, weights, winners,
                   envVars, rclient, rres, rrun, rscan, rhash, rpost, reply, lockSetters, enqueued, published, fate, notFoundAt, doneCount>>

\* result = pipeline.run_all()
process_next_run(r, o, ds, maxPosts) ==
    /\ pc[r] = "pn_run"
    /\ IF run_all_raises(FALSE, o)
       THEN /\ Return(r, "pn_error")
            /\ UNCHANGED <<postClock, published>>
       ELSE /\ postClock < maxPosts
            /\ postClock' = postClock + 1
            /\ rres' = [rres EXCEPT ![r] = run_all(rurl[r], FALSE, o, ds, postClock + 1)]
            /\ published' =
                   IF run_all_publishes(FALSE, o)
                   THEN [published EXCEPT ![<<rclient[r], rurl[r]>>] = @ + 1]
                   ELSE published
            /\ Goto(r, "pn_mark")
            /\ UNCHANGED <<rclient, rurls, rurl, rrun, rscan, rhash, rpost, reply>>
    /\ UNCHANGED <<storeVars, weekday, lockSetters, enqueued, handed, fate, notFoundAt, doneCount>>

\* q.mark_done(url)
process_next_mark(r) ==
    /\ pc[r] = "pn_mark"
    /\ history' = [history EXCEPT ![rclient[r]] =
                       mark_done(@, rurl[r], doneCount[rclient[r]] + 1)]
    /\ doneCount' = [doneCount EXCEPT ![rclient[r]] = @ + 1]
    /\ Return(r, "pn_success")
    /\ UNCHANGED <<queue, lock, preview, dailyCount, registry, experiments, weights, winners,
                   envVars, lockSetters, enqueued, handed, published, fate, notFoundAt>>

(***************************************************************************)
(* handle_callback_query: the buttons of a preview message.  The callback  *)
(* data is "post:{client}:{url_hash}", "cancel:{client}:{url_hash}" or     *)
(* "winner:{post_id}".                                                     *)
(***************************************************************************)
WINNERS_KEEP == 50

\* requests.post(".../answerCallbackQuery"), then the split of the data
callback_answer(r, action, c, h, pid, maxMarks) ==
    /\ pc[r] = "idle"
    /\ action \in {"post", "cancel", "winner"}
    /\ action = "winner" => Len(winners) < maxMarks
    /\ Goto(r, CASE action = "post" -> "cb_post"
                 [] action = "cancel" -> "cb_cancel"
                 [] action = "winner" -> "cb_winner")
    /\ rclient' = [rclient EXCEPT ![r] = IF action = "winner" THEN "drew" ELSE c]
    /\ rhash' = [rhash EXCEPT ![r] = IF action = "winner" THEN "" ELSE h]
    /\ rpost' = [rpost EXCEPT ![r] = IF action = "winner" THEN pid ELSE 0]
    /\ reply' = [reply EXCEPT ![r] = "none"]
    /\ UNCHANGED <<storeVars, envVars, histVars, rurls, rurl, rres, rrun, rscan>>

preview_key(r) == <<rclient[r], rhash[r]>>

\* if action == "cancel": q.redis.delete(preview_key)
cancel_delete(r) ==
    /\ pc[r] = "cb_cancel"
    /\ preview' = [preview EXCEPT ![preview_key(r)] = NoBundle]
    /\ fate' = [fate EXCEPT ![preview_key(r)] =
                   IF preview[preview_key(r)] # NoBundle THEN "cancelled" ELSE @]
    /\ Return(r, "cancelled")
    /\ UNCHANGED <<queue, history, lock, dailyCount, registry, experiments, weights, winners,
                   envVars, lockSetters, enqueued, handed, published, notFoundAt, doneCount>>

\* (mutant) the missing-stage check is gone: an empty bundle is published
approve_get_unchecked(r) ==
    /\ pc[r] = "cb_post"
    /\ rres' = [rres EXCEPT ![r] = preview[preview_key(r)]]
    /\ rurl' = [rurl EXCEPT ![r] = "u1"]
    /\ Goto(r, "cb_publish")
    /\ UNCHANGED <<notFoundAt, rclient, rurls, rrun, rscan, rhash, rpost, reply>>
    /\ UNCHANGED <<storeVars, envVars, lockSetters, enqueued, handed, published, fate, doneCount>>

\* preview_data_raw = q.redis.get(preview_key); if not preview_data_raw: "expired or not found"
approve_get(r) ==
    /\ pc[r] = "cb_post"
    /\ IF preview[preview_key(r)] = NoBundle
       THEN /\ Return(r, "approve_not_found")
            /\ notFoundAt' = notFoundAt \cup {fate[preview_key(r)]}
       ELSE /\ rres' = [rres EXCEPT ![r] = preview[preview_key(r)]]
            /\ rurl' = [rurl EXCEPT ![r] = preview[preview_key(r)].url]
            /\ Goto(r, "cb_publish")
            /\ UNCHANGED <<notFoundAt, rclient, rurls, rrun, rscan, rhash, rpost, reply>>
    /\ UNCHANGED <<storeVars, envVars, lockSetters, enqueued, handed, published, fate, doneCount>>

\* (mutant) a failed publish also deletes the stage
approve_publish_drops_stage(r, ok) ==
    /\ pc[r] = "cb_publish"
    /\ IF ok
       THEN /\ published' = [published EXCEPT ![<<rclient[r], rurl[r]>>] = @ + 1]
            /\ Goto(r, "cb_mark")
            /\ UNCHANGED <<preview, rclient, rurls, rurl, rres, rrun, rscan, rhash, rpost, reply>>
       ELSE /\ Return(r, "approve_failed")
            /\ preview' = [preview EXCEPT ![preview_key(r)] = NoBundle]
            /\ UNCHANGED published
    /\ UNCHANGED <<queue, history, lock, dailyCount, registry, experiments, weights, winners,
                   envVars, lockSetters, enqueued, handed, fate, notFoundAt, doneCount>>

\* pipeline.post_blotato(post_text, image_url), raising or returning
approve_publish(r, ok) ==
    /\ pc[r] = "cb_publish"
    /\ IF ok
       THEN /\ published' = [published EXCEPT ![<<rclient[r], rurl[r]>>] = @ + 1]
            /\ Goto(r, "cb_mark")
            /\ UNCHANGED <<rclient, rurls, rurl, rres, rrun, rscan, rhash, rpost, reply>>
       ELSE /\ Return(r, "approve_failed")
            /\ UNCHANGED published
    /\ UNCHANGED <<storeVars, envVars, lockSetters, enqueued, handed, fate, notFoundAt, doneCount>>

\* q.mark_done(url, client_name)
approve_mark(r) ==
    /\ pc[r] = "cb_mark"
    /\ history' = [history EXCEPT ![rclient[r]] =
                       mark_done(@, rurl[r], doneCount[rclient[r]] + 1)]
    /\ doneCount' = [doneCount EXCEPT ![rclient[r]] = @ + 1]
    /\ Goto(r, "cb_delete")
    /\ UNCHANGED <<queue, lock, preview, dailyCount, registry, experiments, weights, winners,
                   envVars, lockSetters, enqueued, handed, published, fate, notFoundAt, rclient, rurls, rurl, rres, rrun, rscan, rhash, rpost, reply>>

\* q.redis.delete(preview_key); "Successfully posted to LinkedIn!"
approve_delete(r) ==
    /\ pc[r] = "cb_delete"
    /\ preview' = [preview EXCEPT ![preview_key(r)] = NoBundle]
    /\ fate' = [fate EXCEPT ![preview_key(r)] =
                   IF preview[preview_key(r)] # NoBundle THEN "approved" ELSE @]
    /\ Return(r, "approve_posted")
    /\ UNCHANGED <<queue, history, lock, dailyCount, registry, experiments, weights, winners,
                   envVars, lockSetters, enqueued, handed, published, notFoundAt, doneCount>>

\* the store drops a preview key 24 h after its setex
preview_expire(k) ==
    /\ preview[k] # NoBundle
    /\ preview' = [preview EXCEPT ![k] = NoBundle]
    /\ fate' = [fate EXCEPT ![k] = "expired"]
    /\ UNCHANGED <<queue, history, lock, dailyCount, registry, experiments, weights, winners,
                   envVars, reqVars, lockSetters, enqueued, handed, published, notFoundAt, doneCount>>

\* ExperimentTracker.mark_winner(post_id): HGET; is_winner = True; HSET;
\* LPUSH and LTRIM 0 49 of the winners; _update_weights(experiment["variation"])
mark_winner(r) ==
    /\ pc[r] = "cb_winner"
    /\ IF rpost[r] \notin DOMAIN experiments
       THEN /\ Return(r, "winner_not_found")
            /\ UNCHANGED <<experiments, winners, weights>>
       ELSE /\ experiments' = [experiments EXCEPT ![rpost[r]].is_winner = TRUE]
            /\ winners' = LET pushed == <<rpost[r]>> \o winners
                          IN  SubSeq(pushed, 1, Min(Len(pushed), WINNERS_KEEP))
            /\ weights' = update_weights(weights, experiments[rpost[r]].variation)
            /\ Return(r, "winner_marked")
    /\ UNCHANGED <<queue, history, lock, preview, dailyCount, registry, envVars, histVars>>

(***************************************************************************)
(* Inputs of the handlers.                                                 *)
(***************************************************************************)
\* the collaborator outcomes the concurrency specifications draw from:
\* everything works, the content fetch fails, the image generator fails
ContentFails == [AllOk EXCEPT !.content = FALSE]
ImageFails == [AllOk EXCEPT !.image = FALSE]
PublishFails == [AllOk EXCEPT !.publish = FALSE]
FirstDraws == <<0, 0, 0, 0>>

(***************************************************************************)
(* SpecLock: /go requests for any client racing each other, URLs arriving, *)
(* the lock's TTL running out and the operator clearing the locks.         *)
(***************************************************************************)
NextLock ==
    \/ \E r \in Reqs, c \in Clients : add_url_get(r, c, "u1", MaxEnq)
    \/ \E r \in Reqs : add_url_set(r)
    \/ \E r \in Reqs, c \in Clients : go_lock_get(r, c)
    \/ \E r \in Reqs : go_lock_setex(r)
    \/ \E r \in Reqs : go_pop_get(r)
    \/ \E r \in Reqs : go_pop_set(r)
    \/ \E r \in Reqs : go_empty(r)
    \/ \E r \in Reqs, o \in {AllOk, ContentFails} : go_run(r, o, FirstDraws, LockPosts)
    \/ \E r \in Reqs : go_log(r)
    \/ \E r \in Reqs, ok \in BOOLEAN : go_stage(r, ok)
    \/ \E r \in Reqs : go_except(r)
    \/ \E r \in Reqs : go_finally(r)
    \/ \E c \in Clients : lock_expire(c)
    \/ clear_locks

SpecLock == InitWeekday /\ [][NextLock]_vars

(***************************************************************************)
(* Spec: the three dequeuing entry points (/go, the sweep, process_next)   *)
(* racing each other over the clients' queues.                             *)
(***************************************************************************)
Next ==
    \/ \E r \in Reqs, c \in Clients : add_url_get(r, c, "u1", MaxEnq)
    \/ \E r \in Reqs : add_url_set(r)
    \/ add_client("default", <<>>)
    \/ \E r \in Reqs, c \in Clients : go_lock_get(r, c)
    \/ \E r \in Reqs : go_lock_setex(r)
    \/ \E r \in Reqs : go_pop_get(r)
    \/ \E r \in Reqs : go_pop_set(r)
    \/ \E r \in Reqs : go_empty(r)
    \/ \E r \in Reqs, o \in {AllOk, ContentFails} : go_run(r, o, FirstDraws, MainPosts)
    \/ \E r \in Reqs : go_log(r)
    \/ \E r \in Reqs : go_stage(r, TRUE)
    \/ \E r \in Reqs : go_except(r)
    \/ \E r \in Reqs : go_finally(r)
    \/ \E r \in Reqs : sweep_check(r)
    \/ \E r \in Reqs : sweep_list(r)
    \/ \E r \in Reqs : sweep_scan(r)
    \/ \E r \in Reqs : sweep_pop_get(r)
    \/ \E r \in Reqs : sweep_pop_set(r)
    \/ \E r \in Reqs, o \in {AllOk, ContentFails} : sweep_run(r, o, FirstDraws, MainPosts)
    \/ \E r \in Reqs : sweep_mark(r)
    \/ \E r \in Reqs : sweep_incr(r)
    \/ \E r \in Reqs : process_next_get(r)
    \/ \E r \in Reqs : process_next_set(r)
    \/ \E r \in Reqs, o \in {AllOk, ContentFails} : process_next_run(r, o, FirstDraws, MainPosts)
    \/ \E r \in Reqs : process_next_mark(r)

Spec == InitWeekday /\ [][Next]_vars

(***************************************************************************)
(* SpecSweep: sweep invocations racing each other on one day, URLs         *)
(* arriving for 'drew', whose preview mode the operator may switch.        *)
(***************************************************************************)
NextSweep ==
    \/ \E r \in Reqs : add_url_get(r, "drew", "u1", SweepEnq)
    \/ \E r \in Reqs : add_url_set(r)
    \/ \E b \in BOOLEAN : add_client("drew", <<b>>)
    \/ \E r \in Reqs : sweep_check(r)
    \/ \E r \in Reqs : sweep_list(r)
    \/ \E r \in Reqs : sweep_scan(r)
    \/ \E r \in Reqs : sweep_pop_get(r)
    \/ \E r \in Reqs : sweep_pop_set(r)
    \/ \E r \in Reqs, o \in {AllOk, ContentFails} : sweep_run(r, o, FirstDraws, MaxPosts)
    \/ \E r \in Reqs : sweep_stage(r)
    \/ \E r \in Reqs : sweep_mark(r)
    \/ \E r \in Reqs : sweep_incr(r)

SpecSweep == Init /\ [][NextSweep]_vars

(***************************************************************************)
(* The claims.                                                             *)
(***************************************************************************)
\* a request is processing for its client from the dequeue to the end of
\* the generation and of the publish or stage that follows it
ProcessingAt == {"go_run", "go_log", "go_stage", "go_except",
                 "sw_run", "sw_stage", "sw_mark",
                 "pn_run", "pn_mark"}
Processing(r) == pc[r] \in ProcessingAt

\* C1: of the /go requests that try to take the processing lock of one
\* client while the key is neither expired, released nor cleared, at most one
\* becomes its holder and proceeds.
C1_AtMostOneHolder ==
    \A c \in Clients : Cardinality(lockSetters[c]) <= 1

\* C2: no two triggers process for the same client at the same time,
\* whichever entry points they come from.
C2_OneProcessorPerClient ==
    \A r1, r2 \in Reqs :
        (r1 # r2 /\ Processing(r1) /\ Processing(r2)) => rclient[r1] # rclient[r2]

\* C3: a URL is handed to the generation pipeline at most once for each
\* time it was enqueued, over any interleaving of dequeuing triggers.
C3_AtMostOnce ==
    \A k \in Clients \X Urls : handed[k] <= enqueued[k]

\* C4: on one weekday the sweep invocations that go on to generate a post
\* (published or staged) never number more than MAX_POSTS_PER_DAY; each of
\* them increments the day's counter once.
C4_DailyCap ==
    dailyCount <= MAX_POSTS_PER_DAY

\* C5: a /go request that acquired the client's processing lock has released
\* it when it ends, on every exit path: no handler that has returned is still
\* a setter of a live lock.
C5_LockReleasedOnExit ==
    \A c \in Clients : \A r \in lockSetters[c] : pc[r] # "idle"

\* C5 witness: a /go that took the lock has ended on the exception path and
\* another on the success path, and the lock is free.
C5_Witness ==
    \E r1, r2 \in Reqs :
        /\ pc[r1] = "idle" /\ reply[r1] = "go_failed"
        /\ pc[r2] = "idle" /\ reply[r2] = "go_previewed"
        /\ \A c \in Clients : ~lock[c]

\* C6: a release never deletes a lock that a different, still running
\* request set and holds.
C6_NoForeignRelease ==
    [][\A r \in Reqs :
          (pc[r] \in {"go_finally", "go_empty"} /\ pc'[r] = "idle")
              => ~\E r2 \in lockSetters[rclient[r]] \ {r} : pc[r2] # "idle"]_vars

(***************************************************************************)
(* SpecApprove: /go stages previews for 'drew'; the operator approves and  *)
(* cancels them, publishing may fail, and the store expires them.          *)
(***************************************************************************)
NextApprove ==
    \/ \E r \in Reqs : add_url_get(r, "drew", "u1", StageEnq)
    \/ \E r \in Reqs : add_url_set(r)
    \/ \E r \in Reqs : go_lock_get(r, "drew")
    \/ \E r \in Reqs : go_lock_setex(r)
    \/ \E r \in Reqs : go_pop_get(r)
    \/ \E r \in Reqs : go_pop_set(r)
    \/ \E r \in Reqs : go_empty(r)
    \/ \E r \in Reqs : go_run(r, AllOk, FirstDraws, StagePosts)
    \/ \E r \in Reqs : go_log(r)
    \/ \E r \in Reqs : go_stage(r, TRUE)
    \/ \E r \in Reqs : go_finally(r)
    \/ \E r \in Reqs, a \in {"post", "cancel"} :
           callback_answer(r, a, "drew", url_hash("u1"), 0, MaxMarks)
    \/ \E r \in Reqs : cancel_delete(r)
    \/ \E r \in Reqs : approve_get(r)
    \/ \E r \in Reqs, ok \in BOOLEAN : approve_publish(r, ok)
    \/ \E r \in Reqs : approve_mark(r)
    \/ \E r \in Reqs : approve_delete(r)
    \/ \E k \in PreviewKeys : preview_expire(k)

SpecApprove == InitWeekday /\ [][NextApprove]_vars

(***************************************************************************)
(* SpecLedger: /go generates posts with either of two draws, the operator  *)
(* marks posts as winners.                                                 *)
(***************************************************************************)
SecondDraws == <<1, 1, 1, 1>>

NextLedger ==
    \/ \E r \in Reqs : add_url_get(r, "drew", "u1", MaxEnq)
    \/ \E r \in Reqs : add_url_set(r)
    \/ \E r \in Reqs : go_lock_get(r, "drew")
    \/ \E r \in Reqs : go_lock_setex(r)
    \/ \E r \in Reqs : go_pop_get(r)
    \/ \E r \in Reqs : go_pop_set(r)
    \/ \E r \in Reqs : go_empty(r)
    \/ \E r \in Reqs, ds \in {FirstDraws, SecondDraws} : go_run(r, AllOk, ds, LedgerPosts)
    \/ \E r \in Reqs : go_log(r)
    \/ \E r \in Reqs : go_stage(r, TRUE)
    \/ \E r \in Reqs : go_finally(r)
    \/ \E r \in Reqs, pid \in 1..LedgerPosts :
           callback_answer(r, "winner", "drew", "", pid, MaxMarks)
    \/ \E r \in Reqs : mark_winner(r)

SpecLedger == InitWeekday /\ [][NextLedger]_vars

\* C7: approve on a live stage invokes the publish call; when the publish
\* succeeds the URL is pushed on the client's history and the stage is
\* deleted; when it fails the stage and the history are left as they are and
\* the failure is reported.
C7_Approve ==
    [][\A r \in Reqs :
          LET k == preview_key(r)
              c == rclient[r]
          IN  /\ (pc[r] = "cb_post" /\ preview[k] # NoBundle /\ pc'[r] # "cb_post")
                     => pc'[r] = "cb_publish"
              /\ (pc[r] = "cb_publish" /\ pc'[r] = "idle")
                     => /\ reply'[r] = "approve_failed"
                        /\ preview' = preview
                        /\ history' = history
                        /\ published' = published
              /\ (pc[r] = "cb_publish" /\ pc'[r] \notin {"cb_publish", "idle"})
                     => /\ pc'[r] = "cb_mark"
                        /\ published'[<<c, rurl[r]>>] = published[<<c, rurl[r]>>] + 1
              /\ (pc[r] = "cb_mark" /\ pc'[r] # "cb_mark")
                     => /\ pc'[r] = "cb_delete"
                        /\ Head(history'[c]).url = rurl[r]
              /\ (pc[r] = "cb_delete" /\ pc'[r] # "cb_delete")
                     => /\ reply'[r] = "approve_posted"
                        /\ preview'[k] = NoBundle
                        /\ \E i \in 1..Len(history'[c]) : history'[c][i].url = rurl[r]]_vars

\* C7 witness: one approve has ended with the publish failed, another with
\* the post published, recorded in the history and its stage deleted.
C7_Witness ==
    \E r1, r2 \in Reqs :
        /\ pc[r1] = "idle" /\ reply[r1] = "approve_failed"
        /\ pc[r2] = "idle" /\ reply[r2] = "approve_posted"
        /\ history["drew"] # <<>>
        /\ published[<<"drew", "u1">>] > 0
        /\ preview[<<"drew", url_hash("u1")>>] = NoBundle

\* C8: approve for a key with no live stage reports not found, publishes
\* nothing and changes nothing in the store, whatever happened to the stage
\* before; cancel deletes the stage whether or not it exists and changes
\* nothing else.
C8_NoStage ==
    [][\A r \in Reqs :
          LET k == preview_key(r)
          IN  /\ (pc[r] = "cb_post" /\ preview[k] = NoBundle /\ pc'[r] # "cb_post")
                     => /\ pc'[r] = "idle"
                        /\ reply'[r] = "approve_not_found"
                        /\ storeVars' = storeVars
                        /\ published' = published
              /\ (pc[r] = "cb_cancel" /\ pc'[r] # "cb_cancel")
                     => /\ pc'[r] = "idle"
                        /\ reply'[r] = "cancelled"
                        /\ preview' = [preview EXCEPT ![k] = NoBundle]
                        /\ <<queue, history, lock, dailyCount, registry, experiments,
                             weights, winners>>' =
                           <<queue, history, lock, dailyCount, registry, experiments,
                             weights, winners>>
                        /\ published' = published]_vars

\* C8 witness: approve has found no stage for a key never staged, for a
\* cancelled one, for an approved one and for an expired one, and a cancel
\* has ended.
C8_Witness ==
    /\ {"never", "cancelled", "approved", "expired"} \subseteq notFoundAt
    /\ \E r \in Reqs : pc[r] = "idle" /\ reply[r] = "cancelled"

Axes == <<"hook", "structure", "closer", "cta">>

\* C9: mark_winner on a known post_id increases the weight of each of the
\* four axis:option components of the experiment's variation by 0.5, capped
\* at 5.0.
C9_MarkWinnerRewardsComponents ==
    [][\A r \in Reqs :
          (pc[r] = "cb_winner" /\ rpost[r] \in DOMAIN experiments /\ pc'[r] = "idle")
              => LET v == experiments[rpost[r]].variation
                 IN  \A i \in 1..4 :
                        WeightGet(weights', <<Axes[i], v[i]>>) =
                            Min(WeightGet(weights, <<Axes[i], v[i]>>) + WEIGHT_STEP,
                                WEIGHT_CAP)]_vars

\* C10: once a post is marked a winner, the weight the draft step's
\* VariationSelector uses for each option of its variation is above the
\* default it started from.
C10_WinnersBiasSelection ==
    \A pid \in DOMAIN experiments :
        experiments[pid].is_winner =>
            \A i \in 1..4 :
                WeightGet(draft_weights(weights), <<Axes[i], experiments[pid].variation[i]>>)
                    > WEIGHT_DEFAULT

(***************************************************************************)
(* SpecQueue: one request at a time on the queues: URLs (some padded with  *)
(* white space) are added, removed by index, cleared, replaced in bulk and *)
(* dequeued by process_next.                                               *)
(***************************************************************************)
\* the handler of the specifications that run one request at a time
OneReq == {1}
\* URLs as requests carry them
RawUrls == Urls \cup {"u1 "}
\* request bodies of POST /api/queue
BulkLists == {<<>>, <<"u2", "u1">>, <<"u1", " ">>, <<"u1", "u1">>}

NextQueue ==
    \/ \E r \in OneReq, c \in Clients, u \in RawUrls : add_url_get(r, c, u, QueueEnq)
    \/ \E r \in OneReq : add_url_set(r)
    \/ \E r \in OneReq, urls \in BulkLists : queue_post(r, urls)
    \/ \E r \in OneReq, c \in Clients, num \in 0..QueueEnq : remove_get(r, c, num)
    \/ \E r \in OneReq : remove_set(r)
    \/ \E r \in OneReq, c \in Clients : clear_queue(r, c)
    \/ \E r \in OneReq : process_next_get(r)
    \/ \E r \in OneReq : process_next_set(r)
    \/ \E r \in OneReq : process_next_run(r, AllOk, FirstDraws, QueuePosts)
    \/ \E r \in OneReq : process_next_mark(r)

SpecQueue == InitWeekday /\ [][NextQueue]_vars

\* number of times x occurs in the sequence s
Occurrences(s, x) == Cardinality({i \in 1..Len(s) : s[i] = x})

\* C11: enqueue is idempotent: an add_url call that ends leaves its URL in
\* the client's queue exactly once, and leaves the queue as it was when the
\* URL was in it already.
C11_EnqueueIdempotent ==
    [][\A r \in Reqs :
          /\ (pc[r] = "idle" /\ pc'[r] = "idle" /\ reply'[r] = "added") => queue' = queue
          /\ (pc[r] = "add_set" /\ pc'[r] = "idle")
                 => LET c == rclient[r]
                        u == strip(rurl[r])
                    IN  /\ Occurrences(queue'[c], u) = 1
                        /\ Occurrences(queue[c], u) > 0 => queue'[c] = queue[c]]_vars

\* C12: a client's queue never holds a URL twice.
C12_NoDuplicates ==
    \A c \in Clients : \A i, j \in 1..Len(queue[c]) : queue[c][i] = queue[c][j] => i = j

\* C13: a dequeue on a non-empty queue returns its head and leaves the rest
\* in order, an enqueue appends at the tail, and a dequeue on an empty queue
\* returns nothing and leaves the queue empty.
C13_DequeueHead ==
    [][\A r \in Reqs :
          /\ (pc[r] = "pn_pop_set" /\ pc'[r] # "pn_pop_set")
                 => /\ queue["default"] # <<>>
                    /\ rurl'[r] = Head(queue["default"])
                    /\ queue'["default"] = Tail(queue["default"])
                    /\ pc'[r] = "pn_run"
          /\ (pc[r] = "idle" /\ pc'[r] = "idle" /\ reply'[r] = "pn_empty")
                 => queue["default"] = <<>> /\ queue' = queue
          /\ (pc[r] = "idle" /\ pc'[r] = "pn_pop_set") => queue["default"] # <<>>
          /\ (pc[r] = "add_set" /\ pc'[r] = "idle")
                 => queue'[rclient[r]] = Append(queue[rclient[r]], strip(rurl[r]))]_vars

\* C13 witness: the second URL of the 'default' queue has just been dequeued,
\* after the first one was dequeued and done.
C13_Witness ==
    \E r \in Reqs :
        /\ pc[r] = "pn_run" /\ rurl[r] = "u1"
        /\ history["default"] # <<>> /\ Head(history["default"]).url = "u2"
        /\ enqueued[<<"default", "u1">>] > 0 /\ enqueued[<<"default", "u2">>] > 0

(***************************************************************************)
(* SpecHistory: process_next works through more URLs than the history      *)
(* keeps.                                                                  *)
(***************************************************************************)
NextHistory ==
    \/ \E r \in Reqs : add_url_get(r, "default", "u1", HistoryEnq)
    \/ \E r \in Reqs : add_url_set(r)
    \/ \E r \in Reqs : process_next_get(r)
    \/ \E r \in Reqs : process_next_set(r)
    \/ \E r \in Reqs, o \in {AllOk, ContentFails} :
           process_next_run(r, o, FirstDraws, HistoryPosts)
    \/ \E r \in Reqs : process_next_mark(r)

SpecHistory == InitWeekday /\ [][NextHistory]_vars

\* C14: a client's history holds the records of its latest mark_done calls,
\* at most 20 of them, the most recent first.
C14_HistoryBounded ==
    \A c \in Clients :
        /\ Len(history[c]) <= HISTORY_KEEP
        /\ Len(history[c]) = Min(doneCount[c], HISTORY_KEEP)
        /\ \A i \in 1..Len(history[c]) : history[c][i].done_at = doneCount[c] - i + 1

\* C14 witness: more than 20 URLs are done for 'default' and its history is full.
C14_Witness ==
    /\ doneCount["default"] > HISTORY_KEEP
    /\ Len(history["default"]) = HISTORY_KEEP

(***************************************************************************)
(* The Chicago date changes: the new day may or may not be a weekday, and  *)
(* daily_posts:{today} is a key nobody has written yet.                    *)
(***************************************************************************)
midnight ==
    /\ weekday' \in BOOLEAN
    /\ dailyCount' = 0
    /\ UNCHANGED <<queue, history, lock, preview, registry, experiments, weights, winners,
                   postClock, reqVars, histVars>>

(***************************************************************************)
(* SpecLimiter: sweeps, one at a time, over several days.                  *)
(***************************************************************************)
NextLimiter ==
    \/ \E r \in OneReq : add_url_get(r, "drew", "u1", LimiterEnq)
    \/ \E r \in OneReq : add_url_set(r)
    \/ \E r \in OneReq : sweep_check(r)
    \/ \E r \in OneReq : sweep_list(r)
    \/ \E r \in OneReq : sweep_scan(r)
    \/ \E r \in OneReq : sweep_pop_get(r)
    \/ \E r \in OneReq : sweep_pop_set(r)
    \/ \E r \in OneReq, o \in {AllOk, ContentFails} : sweep_run(r, o, FirstDraws, LimiterPosts)
    \/ \E r \in OneReq : sweep_mark(r)
    \/ \E r \in OneReq : sweep_incr(r)
    \/ midnight

SpecLimiter == Init /\ [][NextLimiter]_vars

\* C15: can_post_today is true exactly on a weekday with today's count below
\* 5: false on a weekend day whatever the count, false on a weekday once the
\* count has reached 5.
C15_CanPostNow ==
    /\ can_post_today <=> (weekday /\ dailyCount < 5)
    /\ ~weekday => ~can_post_today
    /\ dailyCount >= MAX_POSTS_PER_DAY => ~can_post_today

\* C15 witness: a weekend day whose count is not 0 (a sweep that began the
\* day before has incremented it).
C15_Witness ==
    ~weekday /\ dailyCount > 0 /\ ~can_post_today

\* the sweeps between the end of run_all and their increment_daily_count call
BeforeIncrement == {r \in Reqs : pc[r] \in {"sw_stage", "sw_mark", "sw_incr"}}
\* the increment_daily_count calls made so far: one per completed run_all of
\* a sweep, less the sweeps that have not reached theirs
IncrementCalls == postClock - Cardinality(BeforeIncrement)

\* C16: the counter is exact. It reads 0 before any increment; every
\* increment_daily_count call raises it by exactly one, whatever the other
\* sweeps are doing, and nothing else changes it, so that after k calls it
\* reads k; it has no ceiling of its own (the sixth call yields 6).
C16_CounterExact ==
    /\ dailyCount = 0
    /\ [](dailyCount = IncrementCalls)
    /\ [][/\ (\E r \in Reqs : pc[r] = "sw_incr" /\ pc'[r] = "idle")
                 => dailyCount' = dailyCount + 1
          /\ (\A r \in Reqs : ~(pc[r] = "sw_incr" /\ pc'[r] = "idle"))
                 => dailyCount' = dailyCount]_vars

\* C16 witness: the sixth increment has been made.
C16_Witness ==
    /\ dailyCount = MAX_POSTS_PER_DAY + 1
    /\ IncrementCalls = MAX_POSTS_PER_DAY + 1
    /\ ~can_post_today

SkipReplies == {"sweep_skipped_weekend", "sweep_skipped_limit"}

\* C17: a sweep that finds a weekend day, or today's count at the maximum,
\* answers 'skipped' and goes no further: it leaves the queues, the
\* histories, the counter and the previews as they were, runs no pipeline
\* and publishes nothing; and no sweep gets past the check in that case.
C17_SoftSkip ==
    [][\A r \in Reqs :
          /\ (pc[r] = "idle" /\ pc'[r] = "sw_list")
                 => weekday /\ dailyCount < MAX_POSTS_PER_DAY
          /\ (reply'[r] \in SkipReplies /\ reply'[r] # reply[r])
                 => /\ ~weekday \/ dailyCount >= MAX_POSTS_PER_DAY
                    /\ pc[r] = "idle" /\ pc'[r] = "idle"
                    /\ UNCHANGED <<queue, history, dailyCount, preview, postClock, published>>]_vars

\* C17 witness: a sweep was skipped at the limit with a URL waiting.
C17_Witness ==
    \E r \in Reqs :
        /\ pc[r] = "idle" /\ reply[r] = "sweep_skipped_limit"
        /\ dailyCount >= MAX_POSTS_PER_DAY
        /\ queue["drew"] # <<>>

(***************************************************************************)
(* ContentPipeline.run_all, one collaborator call per step, as the sweep   *)
(* calls it.  rrun[r].calls lists the calls made so far with their         *)
(* outcomes.                                                               *)
(***************************************************************************)
Called(r, step, outcome) ==
    [rrun EXCEPT ![r].calls = Append(@, [step |-> step, outcome |-> outcome])]
Outcome(ok) == IF ok THEN "returns" ELSE "raises"

\* preview_enabled = client_info.get('preview_mode', False);
\* result = pipeline.run_all(skip_post=preview_enabled), the call
sweep_run_call(r) ==
    /\ pc[r] = "sw_run"
    /\ rrun' = [rrun EXCEPT ![r] = [NoRun EXCEPT !.skip_post = preview_mode_of(rclient[r])]]
    /\ Goto(r, "ra_content")
    /\ UNCHANGED <<storeVars, envVars, histVars, rclient, rurls, rurl, rres, rscan, rhash,
                   rpost, reply>>

\* content = self.get_content(), returning or raising
get_content(r, ok) ==
    /\ pc[r] = "ra_content"
    /\ rrun' = Called(r, "get_content", Outcome(ok))
    /\ Goto(r, IF ok THEN "ra_summary" ELSE "ra_raise")
    /\ UNCHANGED <<storeVars, envVars, histVars, rclient, rurls, rurl, rres, rscan, rhash,
                   rpost, reply>>

\* summary = self.generate_summary(content), returning or raising
generate_summary(r, ok) ==
    /\ pc[r] = "ra_summary"
    /\ rrun' = Called(r, "generate_summary", Outcome(ok))
    /\ Goto(r, IF ok THEN "ra_brief" ELSE "ra_raise")
    /\ UNCHANGED <<storeVars, envVars, histVars, rclient, rurls, rurl, rres, rscan, rhash,
                   rpost, reply>>

\* brief = self.generate_brief(summary), returning or raising
generate_brief(r, ok) ==
    /\ pc[r] = "ra_brief"
    /\ rrun' = Called(r, "generate_brief", Outcome(ok))
    /\ Goto(r, IF ok THEN "ra_image" ELSE "ra_raise")
    /\ UNCHANGED <<storeVars, envVars, histVars, rclient, rurls, rurl, rres, rscan, rhash,
                   rpost, reply>>

\* (mutant) a failed image generation is not caught
generate_image_kie_uncaught(r, ok) ==
    /\ pc[r] = "ra_image"
    /\ rrun' = [Called(r, "generate_image_kie", Outcome(ok)) EXCEPT
                    ![r].raw_img = IF ok THEN "raw" ELSE ""]
    /\ Goto(r, IF ok THEN "ra_upload" ELSE "ra_raise")
    /\ UNCHANGED <<storeVars, envVars, histVars, rclient, rurls, rurl, rres, rscan, rhash,
                   rpost, reply>>

\* try: raw_img = self.generate_image_kie(brief) ... except: final_img = ""
generate_image_kie(r, ok) ==
    /\ pc[r] = "ra_image"
    /\ rrun' = [Called(r, "generate_image_kie", Outcome(ok)) EXCEPT
                    ![r].raw_img = IF ok THEN "raw" ELSE "",
                    ![r].final_img = ""]
    /\ Goto(r, IF ok THEN "ra_upload" ELSE "ra_draft")
    /\ UNCHANGED <<storeVars, envVars, histVars, rclient, rurls, rurl, rres, rscan, rhash,
                   rpost, reply>>

\* what upload_cloudinary does: it returns the secure_url of the response,
\* returns its argument when the download or the upload raises, or returns
\* None when the response carries no secure_url (None is kept as "", the
\* two being alike to `if ... and final_img`)
UploadOutcomes == {"secure_url", "raises", "no_secure_url"}
upload_result(raw, outcome) ==
    CASE outcome = "secure_url" -> "cdn"
      [] outcome = "raises" -> raw
      [] OTHER -> ""

\* final_img = self.upload_cloudinary(raw_img)
upload_cloudinary(r, outcome) ==
    /\ pc[r] = "ra_upload"
    /\ rrun' = [Called(r, "upload_cloudinary", outcome) EXCEPT
                    ![r].final_img = upload_result(rrun[r].raw_img, outcome)]
    /\ Goto(r, "ra_draft")
    /\ UNCHANGED <<storeVars, envVars, histVars, rclient, rurls, rurl, rres, rscan, rhash,
                   rpost, reply>>

\* (mutant) skip_post is not looked at
publish_wanted_in_preview(r) == rrun[r].final_img # ""
\* if not skip_post and final_img
publish_wanted(r) == ~rrun[r].skip_post /\ rrun[r].final_img # ""

\* post_text = self.generate_post_claude(content); post_id; result = {...};
\* the branch on skip_post and final_img
generate_post_claude(r, ok, ds, maxPosts) ==
    /\ pc[r] = "ra_draft"
    /\ rrun' = [Called(r, "generate_post_claude", Outcome(ok)) EXCEPT
                    ![r].weights = draft_weights(weights), ![r].draws = ds]
    /\ IF ok
       THEN /\ postClock < maxPosts
            /\ postClock' = postClock + 1
            /\ rres' = [rres EXCEPT ![r] =
                           [url |-> rurl[r], image_url |-> rrun[r].final_img,
                            post_id |-> postClock + 1,
                            variation |-> select_variation(draft_weights(weights), ds),
                            posted |-> FALSE]]
            /\ Goto(r, IF publish_wanted(r) THEN "ra_publish" ELSE "ra_return")
       ELSE /\ Goto(r, "ra_raise")
            /\ UNCHANGED <<postClock, rres>>
    /\ UNCHANGED <<storeVars, weekday, histVars, rclient, rurls, rurl, rscan, rhash, rpost,
                   reply>>

\* self.post_blotato(post_text, final_img); result["posted"] = True
post_blotato(r, ok) ==
    /\ pc[r] = "ra_publish"
    /\ rrun' = Called(r, "post_blotato", Outcome(ok))
    /\ IF ok
       THEN /\ published' = [published EXCEPT ![<<rclient[r], rurl[r]>>] = @ + 1]
            /\ rres' = [rres EXCEPT ![r].posted = TRUE]
            /\ Goto(r, "ra_return")
       ELSE /\ Goto(r, "ra_raise")
            /\ UNCHANGED <<published, rres>>
    /\ UNCHANGED <<storeVars, envVars, lockSetters, enqueued, handed, fate, notFoundAt,
                   doneCount, rclient, rurls, rurl, rscan, rhash, rpost, reply>>

\* return result, to the sweep: if preview_enabled: stage, else: mark_done
run_all_return(r) ==
    /\ pc[r] = "ra_return"
    /\ Goto(r, IF rrun[r].skip_post THEN "sw_stage" ELSE "sw_mark")
    /\ rrun' = [rrun EXCEPT ![r] = NoRun]
    /\ UNCHANGED <<storeVars, envVars, histVars, rclient, rurls, rurl, rres, rscan, rhash,
                   rpost, reply>>

\* the exception leaves run_all, to the sweep's except: status failed
run_all_raise(r) ==
    /\ pc[r] = "ra_raise"
    /\ Return(r, "sweep_failed")
    /\ UNCHANGED <<storeVars, envVars, histVars>>

(***************************************************************************)
(* SpecPipeline: sweeps, one at a time, whose run_all is taken call by     *)
(* call, over two clients of which 'drew' may be in preview mode.          *)
(***************************************************************************)
NextPipeline ==
    \/ \E r \in OneReq, u \in Urls : add_url_get(r, "drew", u, PipelineEnq)
    \/ \E r \in OneReq : add_url_set(r)
    \/ \E b \in BOOLEAN : add_client("drew", <<b>>)
    \/ \E r \in OneReq : sweep_check(r)
    \/ \E r \in OneReq : sweep_list(r)
    \/ \E r \in OneReq : sweep_scan(r)
    \/ \E r \in OneReq : sweep_pop_get(r)
    \/ \E r \in OneReq : sweep_pop_set(r)
    \/ \E r \in OneReq : sweep_run_call(r)
    \/ \E r \in OneReq, ok \in BOOLEAN : get_content(r, ok)
    \/ \E r \in OneReq, ok \in BOOLEAN : generate_summary(r, ok)
    \/ \E r \in OneReq, ok \in BOOLEAN : generate_brief(r, ok)
    \/ \E r \in OneReq, ok \in BOOLEAN : generate_image_kie(r, ok)
    \/ \E r \in OneReq, outcome \in UploadOutcomes : upload_cloudinary(r, outcome)
    \/ \E r \in OneReq, ok \in BOOLEAN : generate_post_claude(r, ok, FirstDraws, PipelinePosts)
    \/ \E r \in OneReq, ok \in BOOLEAN : post_blotato(r, ok)
    \/ \E r \in OneReq : run_all_return(r)
    \/ \E r \in OneReq : run_all_raise(r)
    \/ \E r \in OneReq : sweep_stage(r)
    \/ \E r \in OneReq : sweep_mark(r)
    \/ \E r \in OneReq : sweep_incr(r)

SpecPipeline == InitWeekday /\ [][NextPipeline]_vars

\* the collaborator calls of run_all, in the order of its statements
RunOrder ==
    <<"get_content", "generate_summary", "generate_brief", "generate_image_kie",
      "upload_cloudinary", "generate_post_claude", "post_blotato">>
HardSteps == {"get_content", "generate_summary", "generate_brief", "generate_post_claude"}
OrderOf(step) == CHOOSE k \in 1..Len(RunOrder) : RunOrder[k] = step

\* C18: run_all makes its calls in order and stops at the first failure of
\* get_content, generate_summary, generate_brief or generate_post_claude:
\* the failed call is the last one made, the run raises and no bundle
\* exists.  A failed image generation is followed by the draft with an empty
\* image URL, a failed upload by the draft with the generator's raw URL.
C18_FailurePropagation ==
    \A r \in Reqs :
        LET cs == rrun[r].calls
            last == Len(cs)
        IN  /\ \A i \in 1..last : \A j \in 1..last :
                   i < j => OrderOf(cs[i].step) < OrderOf(cs[j].step)
            /\ \A i \in 1..last :
                   /\ (cs[i].step \in HardSteps /\ cs[i].outcome = "raises")
                          => i = last /\ pc[r] = "ra_raise" /\ rres[r] = NoBundle
                   /\ (cs[i].step = "generate_image_kie" /\ cs[i].outcome = "raises")
                          => /\ rrun[r].final_img = ""
                             /\ IF i = last THEN pc[r] = "ra_draft"
                                ELSE cs[i + 1].step = "generate_post_claude"
                   /\ (cs[i].step = "upload_cloudinary" /\ cs[i].outcome = "raises")
                          => /\ rrun[r].final_img = "raw"
                             /\ IF i = last THEN pc[r] = "ra_draft"
                                ELSE cs[i + 1].step = "generate_post_claude"
            /\ pc[r] = "ra_raise"
                   => /\ cs # <<>>
                      /\ cs[last].outcome = "raises"
                      /\ cs[last].step \in HardSteps \cup {"post_blotato"}

\* C18 witness: the image generation failed, the run went on to the draft,
\* and the draft's failure ended it.
C18_Witness ==
    \E r \in Reqs :
        /\ pc[r] = "ra_raise"
        /\ rrun[r].calls[Len(rrun[r].calls)] =
               [step |-> "generate_post_claude", outcome |-> "raises"]
        /\ \E i \in 1..Len(rrun[r].calls) :
               rrun[r].calls[i] = [step |-> "generate_image_kie", outcome |-> "raises"]

HasCall(r, step, outcome) ==
    \E i \in 1..Len(rrun[r].calls) : rrun[r].calls[i] = [step |-> step, outcome |-> outcome]

\* C19: run_all calls post_blotato exactly when skip_post is false and the
\* image URL is not empty; otherwise it makes no publish call and returns
\* the bundle with posted = false.  posted is true only after the publish
\* call has returned.
C19_PublishCondition ==
    \A r \in Reqs :
        LET drafted == HasCall(r, "generate_post_claude", "returns")
            publishCalled == \E o \in {"returns", "raises"} : HasCall(r, "post_blotato", o)
            wanted == ~rrun[r].skip_post /\ rrun[r].final_img # ""
        IN  /\ publishCalled => wanted /\ drafted
            /\ pc[r] = "ra_publish" => wanted /\ drafted /\ ~publishCalled
            /\ (drafted /\ wanted) => publishCalled \/ pc[r] = "ra_publish"
            /\ pc[r] = "ra_return"
                   => /\ drafted
                      /\ rres[r].posted = wanted
                      /\ rres[r].posted = HasCall(r, "post_blotato", "returns")
                      /\ rres[r].image_url = rrun[r].final_img
                      /\ rres[r].posted => published[<<rclient[r], rurl[r]>>] > 0

\* C19 witness: a run outside preview mode whose upload failed published
\* with the generator's raw URL.
C19_Witness ==
    \E r \in Reqs :
        /\ pc[r] = "ra_return"
        /\ ~rrun[r].skip_post
        /\ rres[r].posted /\ rres[r].image_url = "raw"
        /\ HasCall(r, "post_blotato", "returns")

(***************************************************************************)
(* SpecSelector: _select_variation applied to a weight snapshot, with the  *)
(* four random.random() results it draws.                                  *)
(***************************************************************************)
AxisOptions == <<HOOK_VARIATIONS, STRUCTURE_VARIATIONS, CLOSER_VARIATIONS, CTA_VARIATIONS>>

\* weight snapshots: none; one hook at the cap; a late hook at the cap and a
\* cta raised once; all closers raised alike; a key that names no option
Snapshots ==
    { EmptyMap,
      <<"hook", "bold_claim">> :> WEIGHT_CAP,
      (<<"hook", "pattern_interrupt">> :> WEIGHT_CAP) @@
          (<<"cta", "save_this">> :> (WEIGHT_DEFAULT + WEIGHT_STEP)),
      [k \in {<<"closer", CLOSER_VARIATIONS[i]>> : i \in 1..Len(CLOSER_VARIATIONS)} |->
          WEIGHT_DEFAULT + WEIGHT_STEP],
      <<"hook", "no_such_hook">> :> WEIGHT_CAP }

\* variation_id, ... = self._select_variation(weights)
select_variation_call(r, w, ds) ==
    /\ pc[r] = "idle"
    /\ rrun' = [rrun EXCEPT ![r].weights = w, ![r].draws = ds]
    /\ rres' = [rres EXCEPT ![r].variation = select_variation(w, ds)]
    /\ UNCHANGED <<storeVars, envVars, histVars, pc, rclient, rurls, rurl, rscan, rhash,
                   rpost, reply>>

NextSelector ==
    \E r \in Reqs, w \in Snapshots, ds \in Draws \X Draws \X Draws \X Draws :
        select_variation_call(r, w, ds)

SpecSelector == InitWeekday /\ [][NextSelector]_vars

\* C20: the selection is a function of the snapshot and the four draws.  On
\* each axis the chosen name is the option, in declaration order, at the
\* first position where the accumulated weight (1.0 for a key the snapshot
\* lacks) reaches the draw scaled by the axis's total; the variation_id is
\* the four chosen names in axis order, each an option of its axis.
C20_SelectorDeterministic ==
    /\ \A r \in Reqs :
           rrun[r].draws # <<>> =>
               LET w == rrun[r].weights
                   v == rres[r].variation
               IN  /\ Len(v) = Len(Axes)
                   /\ \A a \in 1..Len(Axes) :
                          LET opts == AxisOptions[a]
                              cum(k) == CumWeight(opts, Axes[a], w, k)
                              draw == rrun[r].draws[a] * cum(Len(opts))
                          IN  \E k \in 1..Len(opts) :
                                  /\ v[a] = opts[k]
                                  /\ draw <= cum(k) * DrawGrid
                                  /\ \A j \in 1..(k - 1) : draw > cum(j) * DrawGrid
                                  /\ cum(k) - cum(k - 1) =
                                         IF <<Axes[a], opts[k]>> \in DOMAIN w
                                         THEN w[<<Axes[a], opts[k]>>] ELSE 10
    /\ \A r1, r2 \in Reqs :
           (rrun[r1].weights = rrun[r2].weights /\ rrun[r1].draws = rrun[r2].draws)
               => rres[r1].variation = rres[r2].variation

\* C20 witness: with the first hook at the cap the draw 1/2 stays on it,
\* while the same draw without weights lands on the third hook.
C20_Witness ==
    /\ rrun[1].weights = (<<"hook", "bold_claim">> :> WEIGHT_CAP)
    /\ rrun[1].draws = <<1, 1, 1, 1>>
    /\ rres[1].variation[1] = "bold_claim"
    /\ rrun[2].weights = EmptyMap
    /\ rrun[2].draws = <<1, 1, 1, 1>>
    /\ rres[2].variation[1] = "numbers_first"

(***************************************************************************)
(* SpecRetention: log_experiment called again and again, as /go does after *)
(* every generation.  post_id is the first 12 hex digits of                *)
(* md5("{url}:{time.time()}"): a token whose order among the keys has      *)
(* nothing to do with the order of creation.                               *)
(***************************************************************************)
HashModulus == 103
\* hashlib.md5(f"{self.url}:{time.time()}".encode()).hexdigest()[:12] of the
\* n-th generation: a fixed token per generation, distinct for 1..102
post_id(n) == (n * 51) % HashModulus
\* the generation a post_id comes from
created_at(pid) == CHOOSE n \in 0..HashModulus : post_id(n) = pid

\* tracker.log_experiment(post_id, variation, url, post_text) of the next
\* generation
log_experiment_call(maxLogs) ==
    /\ postClock < maxLogs
    /\ postClock' = postClock + 1
    /\ experiments' = log_experiment(experiments, post_id(postClock + 1),
                                     select_variation(EmptyMap, FirstDraws), "u1")
    /\ UNCHANGED <<queue, history, lock, preview, dailyCount, registry, weights, winners,
                   weekday, reqVars, histVars>>

NextRetention == log_experiment_call(RetentionLogs)

SpecRetention == InitWeekday /\ [][NextRetention]_vars

\* the post_ids logged so far and no longer in the ledger
Evicted == {post_id(n) : n \in 1..postClock} \ DOMAIN experiments

\* C21: the ledger never holds more than 100 experiments, a logged
\* experiment is stored with is_winner = false, and the evicted experiments
\* are the oldest: every retained one was created no earlier than every
\* evicted one.
C21_RetentionEvictsOldest ==
    /\ Cardinality(DOMAIN experiments) <= EXPERIMENTS_KEEP
    /\ \A k \in DOMAIN experiments : ~experiments[k].is_winner
    /\ \A k \in DOMAIN experiments : \A e \in Evicted : created_at(k) >= created_at(e)

\* C29: when log_experiment returns, the experiment it was called with is
\* in the ledger.
C29_LoggedIsPresent ==
    [][postClock' = postClock + 1 => post_id(postClock') \in DOMAIN experiments']_vars

(***************************************************************************)
(* The bot's /delete_client command and ClientManager.remove_client.       *)
(***************************************************************************)
RawNames == {"drew", "Drew ", "acme", "ghost"}
\* text[15:].strip().lower()
strip_lower(raw) == IF raw = "Drew " THEN "drew" ELSE raw

\* clients = self.get_all(); if name in clients: del clients[name]; set
remove_client(reg, n) == SelectSeq(reg, LAMBDA e : e.name # n)

\* (mutant) the command hands every name to remove_client
delete_client_parse_unguarded(r, raw) ==
    /\ pc[r] = "idle"
    /\ rclient' = [rclient EXCEPT ![r] = strip_lower(raw)]
    /\ Goto(r, "dc_remove")
    /\ reply' = [reply EXCEPT ![r] = "none"]
    /\ UNCHANGED <<rurls, rurl, rres, rrun, rscan, rhash, rpost>>
    /\ UNCHANGED <<storeVars, envVars, histVars>>

\* name = text[15:].strip().lower(); if name == 'drew': "Cannot delete drew
\* client."
delete_client_parse(r, raw) ==
    /\ pc[r] = "idle"
    /\ IF strip_lower(raw) = "drew" THEN Return(r, "delete_refused")
       ELSE /\ rclient' = [rclient EXCEPT ![r] = strip_lower(raw)]
            /\ Goto(r, "dc_remove")
            /\ reply' = [reply EXCEPT ![r] = "none"]
            /\ UNCHANGED <<rurls, rurl, rres, rrun, rscan, rhash, rpost>>
    /\ UNCHANGED <<storeVars, envVars, histVars>>

\* clients.remove_client(name); "Deleted client ..."
delete_client_remove(r) ==
    /\ pc[r] = "dc_remove"
    /\ registry' = remove_client(registry, rclient[r])
    /\ Return(r, "delete_done")
    /\ UNCHANGED <<queue, history, lock, preview, dailyCount, experiments, weights, winners,
                   envVars, histVars>>

NextRegistry ==
    \/ \E n \in {"drew", "acme"}, settings \in {<<>>, <<TRUE>>, <<FALSE>>} :
           add_client(n, settings)
    \/ \E r \in Reqs, raw \in RawNames : delete_client_parse(r, raw)
    \/ \E r \in Reqs : delete_client_remove(r)

SpecRegistry == InitWeekday /\ [][NextRegistry]_vars

Malformed == [malformed |-> TRUE]
IsMalformed(e) == "malformed" \in DOMAIN e
WellFormed(exps) == {k \in DOMAIN exps : ~IsMalformed(exps[k])}

\* variation_counts / winner_counts over the entries ks of exps
CountsOf(exps, ks) ==
    [v \in {exps[k].variation : k \in ks} |->
        Cardinality({k \in ks : exps[k].variation = v})]

\* try: hlen, llen, get_weights, json.loads of every hgetall value, the two
\* counts; except Exception as e: return {"error": str(e)}
get_stats(exps, wins, w) ==
    IF \E k \in DOMAIN exps : IsMalformed(exps[k])
    THEN [error |-> TRUE]
    ELSE [error |-> FALSE,
          total_experiments |-> Cardinality(DOMAIN exps),
          total_winners |-> Len(wins),
          weights |-> w,
          variation_counts |-> CountsOf(exps, DOMAIN exps),
          winner_counts |-> CountsOf(exps, {k \in DOMAIN exps : exps[k].is_winner})]

\* the value stored under a post_id is overwritten by something that is not
\* JSON (the store is shared with whatever else holds its token)
corrupt_entry(pid) ==
    /\ pid \in WellFormed(experiments)
    /\ experiments' = [experiments EXCEPT ![pid] = Malformed]
    /\ UNCHANGED <<queue, history, lock, preview, dailyCount, registry, weights, winners,
                   envVars, reqVars, histVars>>

\* /stats: stats = tracker.get_stats(), shown with stats.get(key, default):
\* an error result is shown as zeros and no weights
stats_call(r) ==
    /\ pc[r] = "idle"
    /\ Return(r, IF get_stats(experiments, winners, weights).error
                 THEN "stats_error" ELSE "stats_ok")
    /\ UNCHANGED <<storeVars, envVars, histVars>>

NextStats ==
    \/ log_experiment_call(StatsLogs)
    \/ \E n \in 1..StatsLogs : corrupt_entry(post_id(n))
    \/ \E r \in Reqs : stats_call(r)

SpecStats == InitWeekday /\ [][NextStats]_vars

\* C23: get_stats returns the aggregate computed over the well-formed
\* entries, whatever else is stored: a malformed entry is skipped and never
\* makes the aggregation fail.
C23_StatsSkipMalformed ==
    LET stats == get_stats(experiments, winners, weights)
        good == WellFormed(experiments)
    IN  /\ ~stats.error
        /\ stats.variation_counts = CountsOf(experiments, good)
        /\ stats.winner_counts =
               CountsOf(experiments, {k \in good : experiments[k].is_winner})
        /\ stats.weights = weights

(***************************************************************************)
(* The attempts of three collaborator calls: the tweet fetch               *)
(* (TwitterService._scrape_scrapingdog), the summary and the publish.      *)
(* rrun[r].calls lists the attempts of the call in progress with what the  *)
(* collaborator answered.                                                  *)
(***************************************************************************)
SCRAPE_ATTEMPTS == 3
\* what a collaborator answers: success, a 5xx, a network error, bad
\* credentials
Responses == {"ok", "http_500", "network", "http_401"}
Transient == {"http_500", "network"}
NonRetryable == {"http_401"}
CollaboratorCalls == {"scrapingdog", "generate_summary", "post_blotato"}

\* a handler starts one of the calls
collaborator_call(r, step) ==
    /\ pc[r] = "idle"
    /\ Goto(r, CASE step = "scrapingdog" -> "sd_attempt"
                 [] step = "generate_summary" -> "gs_attempt"
                 [] OTHER -> "pb_attempt")
    /\ reply' = [reply EXCEPT ![r] = "none"]
    /\ UNCHANGED <<storeVars, envVars, histVars, rclient, rurls, rurl, rres, rrun, rscan,
                   rhash, rpost>>

\* for attempt in range(3): try: r = requests.get(...); if r.status_code ==
\* 500 and attempt < 2: sleep; continue; http_raise(r); break
\* except Exception: if attempt == 2: raise; sleep
scrapingdog_attempt(r, resp) ==
    LET attempt == Len(rrun[r].calls)
    IN  /\ pc[r] = "sd_attempt"
        /\ rrun' = Called(r, "scrapingdog", resp)
        /\ Goto(r, IF resp = "ok" THEN "rt_done"
                   ELSE IF attempt = SCRAPE_ATTEMPTS - 1 THEN "rt_raise"
                   ELSE "sd_attempt")
        /\ UNCHANGED <<storeVars, envVars, histVars, rclient, rurls, rurl, rres, rscan, rhash,
                       rpost, reply>>

\* try: response = self.gemini_client.models.generate_content(...)
\* except Exception: raise RuntimeError
generate_summary_attempt(r, resp) ==
    /\ pc[r] = "gs_attempt"
    /\ rrun' = Called(r, "generate_summary", resp)
    /\ Goto(r, IF resp = "ok" THEN "rt_done" ELSE "rt_raise")
    /\ UNCHANGED <<storeVars, envVars, histVars, rclient, rurls, rurl, rres, rscan, rhash,
                   rpost, reply>>

\* try: r = requests.post(...); r.raise_for_status()
\* except ...: raise RuntimeError
post_blotato_attempt(r, resp) ==
    /\ pc[r] = "pb_attempt"
    /\ rrun' = Called(r, "post_blotato", resp)
    /\ Goto(r, IF resp = "ok" THEN "rt_done" ELSE "rt_raise")
    /\ UNCHANGED <<storeVars, envVars, histVars, rclient, rurls, rurl, rres, rscan, rhash,
                   rpost, reply>>

\* the call returns, or its exception reaches the handler's except
collaborator_return(r) ==
    /\ pc[r] \in {"rt_done", "rt_raise"}
    /\ Return(r, IF pc[r] = "rt_done" THEN "call_success" ELSE "call_error")
    /\ UNCHANGED <<storeVars, envVars, histVars>>

NextRetry ==
    \/ \E r \in Reqs, step \in CollaboratorCalls : collaborator_call(r, step)
    \/ \E r \in Reqs, resp \in Responses : scrapingdog_attempt(r, resp)
    \/ \E r \in Reqs, resp \in Responses : generate_summary_attempt(r, resp)
    \/ \E r \in Reqs, resp \in Responses : post_blotato_attempt(r, resp)
    \/ \E r \in Reqs : collaborator_return(r)

SpecRetry == InitWeekday /\ [][NextRetry]_vars

\* C24: a collaborator call is attempted at most 3 times; after a transient
\* failure that was not the third attempt the call is attempted again; a
\* non-retryable failure ends the call at once, so that it is only ever the
\* first attempt; a call ends well only on a successful attempt.
C24_BoundedRetry ==
    \A r \in Reqs :
        LET cs == rrun[r].calls
            last == Len(cs)
            attempting == pc[r] \in {"sd_attempt", "gs_attempt", "pb_attempt"}
        IN  /\ last <= 3
            /\ \A i \in 1..last :
                   /\ (cs[i].outcome \in Transient /\ i = last /\ i < 3) => attempting
                   /\ cs[i].outcome \in NonRetryable
                          => i = 1 /\ last = 1 /\ pc[r] = "rt_raise"
            /\ pc[r] = "rt_done" => cs[last].outcome = "ok"
            /\ pc[r] = "rt_raise" => cs[last].outcome # "ok"

\* C25: a handler that generated a bundle does not finish before the
\* ledger holds an experiment under the bundle's post_id, with the bundle's
\* variation and is_winner = false.
C25_EveryBundleLogged ==
    [][\A r \in Reqs :
          (pc[r] # "idle" /\ pc'[r] = "idle" /\ rres[r].post_id # 0)
              => /\ rres[r].post_id \in DOMAIN experiments'
                 /\ experiments'[rres[r].post_id].variation = rres[r].variation
                 /\ ~experiments'[rres[r].post_id].is_winner]_vars


\* C26: a staged bundle is published at most once: over any interleaving of
\* approve and cancel callbacks on one stage key, the successful publishes of
\* the key's URL never outnumber the times it was handed to /go for staging,
\* and no publish succeeds for a key whose stage a completed cancel deleted.
C26_PublishedAtMostOnce ==
    [][\A r \in Reqs :
          (pc[r] = "cb_publish" /\ pc'[r] = "cb_mark")
              => /\ published'[<<rclient[r], rurl[r]>>] <= handed[<<rclient[r], rurl[r]>>]
                 /\ fate[preview_key(r)] # "cancelled"]_vars


(***************************************************************************)
(* SpecRace: enqueues on the 'default' queue run together with a handler   *)
(* that dequeues (POST /api/process_next), removes by index (/remove) or   *)
(* enqueues.  Handler 1 only enqueues, so every overlap of two queue       *)
(* operations has an enqueue in it.                                        *)
(***************************************************************************)
RaceEnq == 3
RacePosts == 2

NextRace ==
    \/ \E r \in Reqs, u \in Urls : add_url_get(r, "default", u, RaceEnq)
    \/ \E r \in Reqs : add_url_set(r)
    \/ \E r \in Reqs \ OneReq, num \in 1..2 : remove_get(r, "default", num)
    \/ \E r \in Reqs \ OneReq : remove_set(r)
    \/ \E r \in Reqs \ OneReq : process_next_get(r)
    \/ \E r \in Reqs \ OneReq : process_next_set(r)
    \/ \E r \in Reqs \ OneReq : process_next_run(r, AllOk, FirstDraws, RacePosts)
    \/ \E r \in Reqs \ OneReq : process_next_mark(r)

SpecRace == InitWeekday /\ [][NextRace]_vars

\* the URLs of a list
Entries(urls) == {urls[i] : i \in 1..Len(urls)}

\* C27: no queue entry is lost or resurrected when an enqueue runs together
\* with a dequeue, an indexed removal or another enqueue on the same client:
\* the write of an enqueue keeps every entry the queue holds and adds at most
\* its own URL; the write of a dequeue or removal takes out at most its own
\* URL and brings back none.
C27_NoLostNoResurrected ==
    [][\A r \in Reqs :
          LET before == Entries(queue[rclient[r]])
              after == Entries(queue'[rclient[r]])
          IN  /\ (pc[r] = "add_set" /\ pc'[r] # "add_set")
                     => /\ before \subseteq after
                        /\ after \subseteq before \cup {strip(rurl[r])}
              /\ (pc[r] = "rm_set" /\ pc'[r] # "rm_set")
                     => /\ after \subseteq before
                        /\ before \ {rurl[r]} \subseteq after
              /\ (pc[r] = "pn_pop_set" /\ pc'[r] # "pn_pop_set")
                     => /\ after \subseteq before
                        /\ before \ {Head(rurls[r])} \subseteq after]_vars


\* C28: outside preview mode the sweep records the URL in the history,
\* increments the daily counter and reports 'posted' only when the publish
\* call was made and returned: a run that produced no image (posted = false)
\* is never counted or reported as a post.
C28_PostedOnlyIfPublished ==
    [][\A r \in Reqs :
          LET wasPublished == /\ rres[r].posted
                              /\ published[<<rclient[r], rurl[r]>>] > 0
          IN  /\ (pc[r] = "sw_mark" /\ history'[rclient[r]] # history[rclient[r]])
                     => wasPublished
              /\ (pc[r] = "sw_incr" /\ reply[r] = "sweep_posted"
                      /\ dailyCount' = dailyCount + 1)
                     => wasPublished
              /\ (pc[r] = "sw_incr" /\ pc'[r] = "idle" /\ reply'[r] = "sweep_posted")
                     => wasPublished]_vars


(***************************************************************************)
(* SpecFallback: the same requests served twice, by a process with no      *)
(* store configured (SimpleQueue.redis is None, _local_queues is used) and *)
(* by the store-backed SimpleQueue, whose queue the variable queue holds.  *)
(* Every handler builds its own SimpleQueue(cfg); rurls and rurl hold what *)
(* the fallback's get_urls and pop_next return to the handler.             *)
(***************************************************************************)
FallbackEnq == 3

\* SimpleQueue.__init__ without kv_url/kv_token: self._local_queues = {}
local_queues_init == [c \in {} |-> <<>>]

\* get_urls without redis: self._local_queues.get(client_id, [])
local_get_urls(local, c) == IF c \in DOMAIN local THEN local[c] ELSE <<>>

\* set_urls without redis: self._local_queues[client_id] = urls
local_set_urls(local, urls, c) ==
    [k \in DOMAIN local \cup {c} |-> IF k = c THEN urls ELSE local[k]]

\* POST /api/add: q = SimpleQueue(Config()); q.add_url(url).  rurls becomes
\* the instance's _local_queues["default"] after the call.
fallback_add_url(r, u) ==
    /\ pc[r] = "idle"
    /\ TotalEnqueued < FallbackEnq
    /\ LET urls == local_get_urls(local_queues_init, "default")
           added == IF u \in Entries(urls) THEN urls ELSE Append(urls, u)
           stored == get_urls("default")
       IN  /\ rurls' = [rurls EXCEPT ![r] =
                            local_get_urls(local_set_urls(local_queues_init, added,
                                                          "default"), "default")]
           /\ queue' = [queue EXCEPT !["default"] =
                            IF u \in Entries(stored) THEN @
                            ELSE set_urls(Append(stored, u))]
           /\ enqueued' = [enqueued EXCEPT ![<<"default", strip(u)>>] =
                               IF u \in Entries(stored) THEN @ ELSE @ + 1]
    /\ Goto(r, "fb_held")
    /\ rclient' = [rclient EXCEPT ![r] = "default"]
    /\ reply' = [reply EXCEPT ![r] = "added"]
    /\ UNCHANGED <<history, lock, preview, dailyCount, registry, experiments, weights,
                   winners, envVars, lockSetters, handed, published, fate, notFoundAt,
                   doneCount, rurl, rres, rrun, rscan, rhash, rpost>>

\* GET /api/queue: q = SimpleQueue(cfg); "urls": q.get_urls()
fallback_get_urls(r) ==
    /\ pc[r] = "idle"
    /\ rurls' = [rurls EXCEPT ![r] = local_get_urls(local_queues_init, "default")]
    /\ Goto(r, "fb_held")
    /\ rclient' = [rclient EXCEPT ![r] = "default"]
    /\ reply' = [reply EXCEPT ![r] = "listed"]
    /\ UNCHANGED <<storeVars, envVars, histVars, rurl, rres, rrun, rscan, rhash, rpost>>

\* POST /api/process_next: q = SimpleQueue(cfg); url = q.pop_next();
\* if not url: status empty
fallback_pop_next(r) ==
    /\ pc[r] = "idle"
    /\ LET urls == local_get_urls(local_queues_init, "default")
           stored == get_urls("default")
       IN  /\ rurl' = [rurl EXCEPT ![r] = IF urls = <<>> THEN NoUrl ELSE Head(urls)]
           /\ rurls' = [rurls EXCEPT ![r] = IF urls = <<>> THEN <<>> ELSE Tail(urls)]
           /\ reply' = [reply EXCEPT ![r] = IF urls = <<>> THEN "pn_empty" ELSE "popped"]
           /\ queue' = [queue EXCEPT !["default"] =
                            IF stored = <<>> THEN @ ELSE set_urls(Tail(stored))]
           /\ handed' = IF stored = <<>> THEN handed
                        ELSE [handed EXCEPT ![<<"default", Head(stored)>>] = @ + 1]
    /\ Goto(r, "fb_held")
    /\ rclient' = [rclient EXCEPT ![r] = "default"]
    /\ UNCHANGED <<history, lock, preview, dailyCount, registry, experiments, weights,
                   winners, envVars, lockSetters, enqueued, published, fate, notFoundAt,
                   doneCount, rres, rrun, rscan, rhash, rpost>>

\* the response is sent; the handler's SimpleQueue goes with its locals
fallback_respond(r) ==
    /\ pc[r] = "fb_held"
    /\ Return(r, reply[r])
    /\ UNCHANGED <<storeVars, envVars, histVars>>

NextFallback ==
    \/ \E r \in OneReq, u \in Urls : fallback_add_url(r, u)
    \/ \E r \in OneReq : fallback_get_urls(r)
    \/ \E r \in OneReq : fallback_pop_next(r)
    \/ \E r \in OneReq : fallback_respond(r)

SpecFallback == InitWeekday /\ [][NextFallback]_vars

\* C30: with no store configured the fallback answers queue requests as the
\* store-backed queue does: a list request returns the URLs enqueued by the
\* requests before it, in the stored order, and a dequeue returns the first
\* of them (nothing when there is none).
C30_FallbackLikeStore ==
    [][\A r \in OneReq :
          /\ (pc[r] = "idle" /\ pc'[r] = "fb_held" /\ reply'[r] = "listed")
                 => rurls'[r] = get_urls("default")
          /\ (pc[r] = "idle" /\ pc'[r] = "fb_held" /\ reply'[r] \in {"popped", "pn_empty"})
                 => rurl'[r] = IF get_urls("default") = <<>> THEN NoUrl
                               ELSE Head(get_urls("default"))]_vars

=============================================================================
